---- MODULE Spec2Model ----
(***************************************************************************)
(* Model of the AI-estimate pipeline of the Kanboard assistant:            *)
(* services/ai_services.py (AIEstimator), the handlers of                  *)
(* ai_task_creator.py that serve it over HTTP, and the ticket table of     *)
(* models.py.                                                              *)
(*                                                                         *)
(* Text is a sequence of pieces.  A literal of the source is one piece,    *)
(* the task description is one piece per character, a provider reply is    *)
(* one piece per lexical token (a fence, the tag json, white space, a JSON *)
(* document, or text that is no JSON).                                     *)
(***************************************************************************)
EXTENDS Integers, Sequences, FiniteSets, TLC

VARIABLES
    available,    \* AIEstimator.available, set by __init__
    pc,           \* per caller: "idle", "attempt" (inside the retry loop), "done"
    task,         \* per caller: task_description of the running call
    attempt,      \* per caller: the loop variable of `for attempt in range(max_retries)`
    retry_delay,  \* per caller: the local retry_delay
    calls,        \* per caller: provider invocations made by the running call
    slept,        \* per caller: the time.sleep() arguments of the running call, in order
    errors,       \* per caller: the error texts of the failed attempts, in order
    response,     \* per caller: the reply of the successful attempt, if any
    outcome,      \* per caller: how the call ended: a returned dict or a raised exception
    request,      \* per caller: the body of the HTTP request being served
    http,         \* per caller: the HTTP response of the request being served
    tickets,      \* the rows of the table kanban_tickets, in insertion order
    session       \* db.session: the rows added and not yet committed

\* The locals of estimate_task and the estimator; the state of the web layer
webvars == <<request, http, tickets, session>>

vars == <<available, pc, task, attempt, retry_delay, calls, slept, errors, response, outcome,
          request, http, tickets, session>>

----------------------------------------------------------------------------
(* Bounds of the model *)

\* A model reply differs from the complete, well-typed reply in at most this many fields.
MaxDeviations == 1

(* Constants of the program *)

\* Faulty variant: one attempt too many
max_retries_one_more == 3 + 1

max_retries == 3
base_retry_delay == 2
TitleSlice == 40
ReasoningSlice == 100

----------------------------------------------------------------------------
(* Sequences *)

Min(a, b) == IF a < b THEN a ELSE b

\* s[:n]
Take(s, n) == SubSeq(s, 1, Min(n, Len(s)))

\* s[n:]
Drop(s, n) == SubSeq(s, Min(n, Len(s)) + 1, Len(s))

\* s[:-n]
DropLast(s, n) == SubSeq(s, 1, IF Len(s) >= n THEN Len(s) - n ELSE 0)

\* needle in haystack, for a one-piece needle
Contains(s, piece) == \E i \in 1..Len(s) : s[i] = piece

----------------------------------------------------------------------------
(* Callers and tasks *)

AllCallers == {"c1", "c2"}
SeqCallers == {"c1"}

ShortTask == <<"F", "i", "x">>
\* A task longer than both slices the fallback takes of it
LongTask == [i \in 1..(ReasoningSlice + 1) |-> "x"]
Tasks == {ShortTask, LongTask}

\* Values datetime.now() is read as
Timestamps == {0, 1}

\* Task texts as a request carries them
TaskFixLogin == <<"fix", " ", "login">>
TaskSafari ==
    <<"Fix", " ", "login", " ", "bug", " ", "on", " ", "mobile", " ", "Safari", " ",
      "for", " ", "iOS", " ", "17", " ", "users">>
WebTasks ==
    { TaskFixLogin,
      TaskSafari,
      <<" ">> \o TaskFixLogin \o <<"\n">>,
      [TaskSafari EXCEPT ![4] = "\n"] }

----------------------------------------------------------------------------
(* Python values: str, list of str, int, dict, None, bool *)

PyStr(s) == [kind |-> "str", s |-> s, items |-> <<>>]
PyList(xs) == [kind |-> "list", s |-> <<>>, items |-> xs]
PyInt == [kind |-> "int", s |-> <<>>, items |-> <<>>]
PyDict == [kind |-> "dict", s |-> <<>>, items |-> <<>>]
PyNone == [kind |-> "NoneType", s |-> <<>>, items |-> <<>>]
PyBool(b) == [kind |-> "bool", s |-> <<IF b THEN "True" ELSE "False">>, items |-> <<>>]
PyTime(t) == [kind |-> "str", s |-> <<"T", ToString(t)>>, items |-> <<>>]

EmptyDict == [k \in {} |-> PyNone]

\* d[k] = v
SetItem(d, k, v) == [x \in DOMAIN d \cup {k} |-> IF x = k THEN v ELSE d[x]]

(* JSON values on the wire *)

JStr(s) == [kind |-> "string", s |-> s, items |-> <<>>]
JArr(xs) == [kind |-> "array", s |-> <<>>, items |-> xs]
JNum == [kind |-> "number", s |-> <<>>, items |-> <<>>]
JObj == [kind |-> "object", s |-> <<>>, items |-> <<>>]
JNull == [kind |-> "null", s |-> <<>>, items |-> <<>>]
JTrue == [kind |-> "true", s |-> <<>>, items |-> <<>>]
JFalse == [kind |-> "false", s |-> <<>>, items |-> <<>>]

----------------------------------------------------------------------------
(* The fields of an estimate, as the prompt asks for them *)

ArrayFields == {"dependencies", "required_access", "suggested_labels"}
ScalarFields == {"title", "estimated_time", "priority", "complexity_level", "reasoning"}
Fields == ArrayFields \cup ScalarFields
\* Members a reply was not asked for and may hold all the same
ExtraKeys == {"fallback", "success"}

(* JSON documents a reply can hold.  A document is a JSON value and, when *)
(* it is an object, its members.                                          *)

NoMembers == [k \in {} |-> JNull]

Doc(v, m) == [kind |-> v.kind, s |-> v.s, items |-> v.items, members |-> m]

\* The reply the prompt asks for: every field present and well typed.
FullMembers ==
    [k \in Fields |->
        IF k \in ArrayFields THEN JArr(<< <<k, "-1">>, <<k, "-2">> >>)
        ELSE JStr(<<"model ", k>>)]

\* What a field of a reply may hold instead of the value asked for, and
\* what a member that was not asked for holds.
Deviations(k) ==
    IF k \in ArrayFields THEN {"absent", "string", "empty", "number", "object", "null"}
    ELSE IF k \in ScalarFields THEN {"absent", "number", "null"}
    ELSE IF k = "fallback" THEN {"true"}
    ELSE {"false"}

Deviant(k, how) ==
    CASE how = "string" -> JStr(<<"one ", k>>)
      [] how = "empty" -> JArr(<<>>)
      [] how = "number" -> JNum
      [] how = "object" -> JObj
      [] how = "true" -> JTrue
      [] how = "false" -> JFalse
      [] OTHER -> JNull

DeviateMembers(S, how) ==
    LET present == {k \in Fields \cup S : k \notin S \/ how[k] # "absent"}
    IN  [k \in present |-> IF k \in S THEN Deviant(k, how[k]) ELSE FullMembers[k]]

ObjectDocs ==
    UNION { { Doc(JObj, DeviateMembers(S, how)) :
                how \in {h \in [S -> {"absent", "string", "empty", "number", "object",
                                      "null", "true", "false"}] :
                            \A k \in S : h[k] \in Deviations(k)} } :
            S \in {T \in SUBSET (Fields \cup ExtraKeys) : Cardinality(T) <= MaxDeviations} }
    \cup {Doc(JObj, NoMembers)}

OtherDocs ==
    { Doc(JArr(<< <<"a">>, <<"b">> >>), NoMembers),
      Doc(JStr(<<"text">>), NoMembers),
      Doc(JStr(<<"required_access">>), NoMembers),
      Doc(JNum, NoMembers),
      Doc(JNull, NoMembers),
      Doc(JTrue, NoMembers) }

Docs == ObjectDocs \cup OtherDocs

(* Reply text: a sequence of tokens *)

NoDoc == Doc(JNull, NoMembers)
\* three backticks
Fence == [tok |-> "fence", doc |-> NoDoc]
JsonTag == [tok |-> "json", doc |-> NoDoc]
Space == [tok |-> " ", doc |-> NoDoc]
Junk == [tok |-> "junk", doc |-> NoDoc]
DocTok(d) == [tok |-> "doc", doc |-> d]

\* The wrappers a reply comes in: bare, fenced with and without the tag,
\* padded, a fence left open, a fence never opened, a stray tag.
Wrappers ==
    { [pre |-> <<>>, post |-> <<>>],
      [pre |-> <<Fence, JsonTag, Space>>, post |-> <<Space, Fence>>],
      [pre |-> <<Fence, Space>>, post |-> <<Space, Fence>>],
      [pre |-> <<Space>>, post |-> <<Space>>],
      [pre |-> <<Fence, JsonTag, Space>>, post |-> <<>>],
      [pre |-> <<JsonTag, Space>>, post |-> <<>>] }

Bodies == {<<DocTok(d)>> : d \in Docs} \cup {<<Junk>>, <<>>}

ReplyTexts == {w.pre \o b \o w.post : w \in Wrappers, b \in Bodies}

\* response.text is a str or None
Replies ==
    {[hasText |-> TRUE, text |-> t] : t \in ReplyTexts} \cup {[hasText |-> FALSE, text |-> <<>>]}

NoReply == [hasText |-> FALSE, text |-> <<>>]

----------------------------------------------------------------------------
(* str.strip(), str.startswith(), str.endswith() on reply text *)

RECURSIVE LStrip(_)
LStrip(t) == IF Len(t) > 0 /\ t[1].tok = " " THEN LStrip(Tail(t)) ELSE t

RECURSIVE RStrip(_)
RStrip(t) == IF Len(t) > 0 /\ t[Len(t)].tok = " " THEN RStrip(DropLast(t, 1)) ELSE t

Strip(t) == RStrip(LStrip(t))

StartsWith(t, p) == Len(t) >= Len(p) /\ SubSeq(t, 1, Len(p)) = p

EndsWith(t, p) == Len(t) >= Len(p) /\ SubSeq(t, Len(t) - Len(p) + 1, Len(t)) = p

\* Faulty variant: the tag after the opening fence is left in the text
clean_response_keeps_tag(response_text) ==
    LET b == IF StartsWith(response_text, <<Fence>>) THEN Drop(response_text, 1)
             ELSE response_text
        c == IF EndsWith(b, <<Fence>>) THEN DropLast(b, 1) ELSE b
    IN  Strip(c)

\* AIEstimator._clean_response
clean_response(response_text) ==
    LET a == IF StartsWith(response_text, <<Fence, JsonTag>>)
             THEN Drop(response_text, 2) ELSE response_text
        b == IF StartsWith(a, <<Fence>>) THEN Drop(a, 1) ELSE a
        c == IF EndsWith(b, <<Fence>>) THEN DropLast(b, 1) ELSE b
    IN  Strip(c)

----------------------------------------------------------------------------
(* json.loads: JSON text to a Python value, or JSONDecodeError *)

PyKind(k) ==
    CASE k = "string" -> "str"
      [] k = "array" -> "list"
      [] k = "number" -> "int"
      [] k = "object" -> "dict"
      [] k = "null" -> "NoneType"
      [] OTHER -> "bool"

PyText(v) ==
    CASE v.kind = "true" -> <<"True">>
      [] v.kind = "false" -> <<"False">>
      [] OTHER -> v.s

FromJson(v) ==
    [kind |-> PyKind(v.kind), s |-> PyText(v), items |-> v.items]

\* A parsed top-level value: a Python value and, for a dict, its items.
FromJsonDoc(doc) ==
    [kind |-> PyKind(doc.kind), s |-> PyText(doc), items |-> doc.items,
     d |-> [k \in DOMAIN doc.members |-> FromJson(doc.members[k])]]

NoValue == [kind |-> "NoneType", s |-> <<>>, items |-> <<>>, d |-> EmptyDict]

\* Faulty variant: any text parses, as an empty object
json_loads_lenient(text) == [exc |-> "", val |-> FromJsonDoc(Doc(JObj, NoMembers))]

json_loads(text) ==
    LET t == Strip(text)
    IN  IF Len(t) = 1 /\ t[1].tok = "doc"
        THEN [exc |-> "", val |-> FromJsonDoc(t[1].doc)]
        ELSE [exc |-> "JSONDecodeError", val |-> NoValue]

----------------------------------------------------------------------------
(* AIEstimator._validate_and_format_response *)

\* `key in data`: a dict's keys, a list's elements, a str's substrings;
\* TypeError for a value that is no container.
KeyIn(key, data) ==
    CASE data.kind = "dict" -> key \in DOMAIN data.d
      [] data.kind = "list" -> \E i \in 1..Len(data.items) : data.items[i] = <<key>>
      [] data.kind = "str" -> Contains(data.s, key)
      [] OTHER -> FALSE

\* Faulty variant: a single string is left as it is
EnsureArray_skipped(r, key) == r

\* if key in data: if isinstance(data[key], str): data[key] = [data[key]]
EnsureArray(r, key) ==
    IF r.exc # "" THEN r
    ELSE IF r.val.kind \notin {"dict", "list", "str"} THEN [r EXCEPT !.exc = "TypeError"]
    ELSE IF ~KeyIn(key, r.val) THEN r
    ELSE IF r.val.kind # "dict" THEN [r EXCEPT !.exc = "TypeError"]
    ELSE IF r.val.d[key].kind = "str"
         THEN [r EXCEPT !.val.d[key] = PyList(<<r.val.d[key].s>>)]
         ELSE r

\* Faulty variant: the title is wrapped like the three array fields
validate_and_format_title_too(data) ==
    EnsureArray(EnsureArray(EnsureArray(EnsureArray([exc |-> "", val |-> data],
        "required_access"), "dependencies"), "suggested_labels"), "title")

validate_and_format_response(data) ==
    EnsureArray(EnsureArray(EnsureArray([exc |-> "", val |-> data],
        "required_access"), "dependencies"), "suggested_labels")

----------------------------------------------------------------------------
(* AIEstimator._get_fallback_response; an error of <<>> is None or "" *)

\* Faulty variant: the dict literal without reasoning
fallback_keys_without_reasoning ==
    {"success", "error", "title", "estimated_time", "priority", "complexity_level",
     "dependencies", "required_access", "suggested_labels", "fallback", "timestamp"}

\* The keys of the dict literal
fallback_keys ==
    {"success", "error", "title", "estimated_time", "priority", "complexity_level",
     "dependencies", "required_access", "suggested_labels", "reasoning",
     "fallback", "timestamp"}

\* Faulty variant: the default error text carries the time of the call
fallback_error_dated(error, now) ==
    PyStr(IF Len(error) > 0 THEN error
          ELSE <<"AI service temporarily unavailable at ", ToString(now)>>)

\* error or "AI service temporarily unavailable": the time is not read
fallback_error(error, now) ==
    PyStr(IF Len(error) > 0 THEN error ELSE <<"AI service temporarily unavailable">>)

get_fallback_response(task_description, error, now) ==
    [k \in fallback_keys |->
        CASE k = "success" -> PyBool(FALSE)
          [] k = "error" -> fallback_error(error, now)
          [] k = "title" ->
                PyStr(<<"Analysis: ">> \o Take(task_description, TitleSlice) \o <<"...">>)
          [] k = "estimated_time" -> PyStr(<<"1-2 weeks">>)
          [] k = "priority" -> PyStr(<<"Medium">>)
          [] k = "complexity_level" -> PyStr(<<"Medium">>)
          [] k = "dependencies" ->
                PyList(<< <<"Initial requirements gathering">>, <<"Technical review">> >>)
          [] k = "required_access" ->
                PyList(<< <<"Development Environment Access">>,
                          <<"Version Control System (GitHub/GitLab)">>,
                          <<"Testing Environment">> >>)
          [] k = "suggested_labels" ->
                PyList(<< <<"feature">>, <<"development">>, <<"needs-review">> >>)
          [] k = "reasoning" ->
                PyStr(<<"Phase 1: Technical Breakdown Overview: Manual technical analysis required for '">>
                      \o Take(task_description, ReasoningSlice)
                      \o <<"...'. Standard development workflow ... Phase 1: ... Phase 2: ... Phase 3: ...">>)
          [] k = "fallback" -> PyBool(TRUE)
          [] OTHER -> PyTime(now)]

----------------------------------------------------------------------------
(* AIEstimator.__init__: available is decided by the credential and by *)
(* the construction of the client                                       *)

init_available(has_api_key, client_ok) ==
    IF ~has_api_key THEN FALSE
    ELSE IF client_ok THEN TRUE
    ELSE FALSE

----------------------------------------------------------------------------
(* AIEstimator.estimate_task *)

\* How a call ends
Returned(d) == [how |-> "return", value |-> d, exc |-> ""]
Raised(e) == [how |-> "raise", value |-> EmptyDict, exc |-> e]
NoOutcome == [how |-> "none", value |-> EmptyDict, exc |-> ""]

\* Texts of the errors the provider raises (str(e))
ErrorTexts ==
    { <<"503", " Service Unavailable">>,
      <<"429", " RESOURCE_EXHAUSTED">>,
      <<"The model is overloaded: ", "UNAVAILABLE">>,
      <<"400", " INVALID_ARGUMENT">>,
      <<"Connection timed out">> }

\* Faulty variant: the availability test is missing
short_circuit_never(is_available) == FALSE

\* `if not self.available`
short_circuit(is_available) == ~is_available

\* Faulty variant: every failure is retried
is_transient_always(error_str) == TRUE

\* "503" in error_str or "UNAVAILABLE" in error_str or "429" in error_str
is_transient(error_str) ==
    Contains(error_str, "503") \/ Contains(error_str, "UNAVAILABLE") \/ Contains(error_str, "429")

\* Faulty variant: the last attempt is followed by a wait too
may_retry_off_by_one(n) == n < max_retries

\* `if attempt < max_retries - 1`
may_retry(n) == n < max_retries - 1

\* Faulty variant: no backoff
next_delay_constant(delay) == delay

\* retry_delay *= 2
next_delay(delay) == delay * 2

\* Faulty variant: success is left as the reply gave it
mark_success_skipped(d) == d

\* formatted_data["success"] = True
mark_success(d) == SetItem(d, "success", PyBool(TRUE))

\* Faulty variant: the outer handler is missing
outer_catches_nothing(exc) == FALSE

\* `except Exception` of the outer try: every exception of the model is an Exception
outer_catches(exc) == exc \in {"AttributeError", "TypeError", "JSONDecodeError"}

\* `except json.JSONDecodeError` of the inner try
inner_catches(exc) == exc = "JSONDecodeError"

\* Faulty variant: a failure met after the reply is answered without the marker
handle_unmarked(exc, t, now) ==
    Returned(SetItem(get_fallback_response(t, <<"Unexpected Error: ", exc>>, now),
                     "fallback", PyBool(FALSE)))

\* The handlers an exception raised while the reply is processed passes through
handle(exc, t, now) ==
    IF inner_catches(exc)
    THEN Returned(get_fallback_response(t, <<"JSON Parse Error: ", exc>>, now))
    ELSE IF outer_catches(exc)
    THEN Returned(get_fallback_response(t, <<"Unexpected Error: ", exc>>, now))
    ELSE Raised(exc)

\* Lines 83-106: from the reply of a successful attempt to the end of the call
after_response(t, reply, now) ==
    IF ~reply.hasText
    THEN IF outer_catches("AttributeError")
         THEN Returned(get_fallback_response(t, <<"Unexpected Error: ", "AttributeError">>, now))
         ELSE Raised("AttributeError")
    ELSE LET response_text == clean_response(Strip(reply.text))
             parsed == json_loads(response_text)
             formatted == validate_and_format_response(parsed.val)
         IN  IF parsed.exc # "" THEN handle(parsed.exc, t, now)
             ELSE IF formatted.exc # "" THEN handle(formatted.exc, t, now)
             ELSE IF formatted.val.kind # "dict" THEN handle("TypeError", t, now)
             ELSE Returned(mark_success(formatted.val.d))

----------------------------------------------------------------------------
(* The state machine *)

\* No request is being served, nothing was answered, the table is empty
NoRequest ==
    [route |-> "none",
     body |-> [kind |-> "NoneType", d |-> EmptyDict, estimate_kind |-> "absent",
               estimate |-> EmptyDict]]
NoResponse == [status |-> 0, body |-> EmptyDict, estimate |-> EmptyDict, ticket |-> <<>>]

WebInit ==
    /\ request = [c \in AllCallers |-> NoRequest]
    /\ http = [c \in AllCallers |-> NoResponse]
    /\ tickets = <<>>
    /\ session = <<>>

Init ==
    /\ \E has_api_key \in BOOLEAN, client_ok \in BOOLEAN :
            available = init_available(has_api_key, client_ok)
    /\ WebInit
    /\ pc = [c \in AllCallers |-> "idle"]
    /\ task = [c \in AllCallers |-> <<>>]
    /\ attempt = [c \in AllCallers |-> 0]
    /\ retry_delay = [c \in AllCallers |-> 0]
    /\ calls = [c \in AllCallers |-> 0]
    /\ slept = [c \in AllCallers |-> <<>>]
    /\ errors = [c \in AllCallers |-> <<>>]
    /\ response = [c \in AllCallers |-> NoReply]
    /\ outcome = [c \in AllCallers |-> NoOutcome]

\* Faulty variant: the counter and the delay are kept on the estimator,
\* one cell for all calls
local_of_shared(c) == "c1"

\* max_retries, retry_delay and attempt are locals of estimate_task (lines
\* 56-59): every running call has its own
local_of(c) == c

\* estimate_task(t) is entered by caller c: lines 36-57
Enter(c, t, now) ==
    /\ task' = [task EXCEPT ![c] = t]
    /\ IF short_circuit(available)
       THEN /\ outcome' = [outcome EXCEPT ![c] =
                    Returned(get_fallback_response(t, <<>>, now))]
            /\ pc' = [pc EXCEPT ![c] = "done"]
            /\ UNCHANGED <<attempt, retry_delay>>
       ELSE /\ pc' = [pc EXCEPT ![c] = "attempt"]
            /\ attempt' = [attempt EXCEPT ![local_of(c)] = 0]
            /\ retry_delay' = [retry_delay EXCEPT ![local_of(c)] = base_retry_delay]
            /\ UNCHANGED outcome
    /\ UNCHANGED <<available, calls, slept, errors, response>>

\* generate_content raises error_str in the call of c: lines 61-65 and 69-81
Fail(c, error_str, now) ==
    /\ errors' = [errors EXCEPT ![c] = Append(@, error_str)]
    /\ IF is_transient(error_str) /\ may_retry(attempt[local_of(c)])
       THEN /\ slept' = [slept EXCEPT ![c] = Append(@, retry_delay[local_of(c)])]
            /\ retry_delay' = [retry_delay EXCEPT ![local_of(c)] = next_delay(@)]
            /\ attempt' = [attempt EXCEPT ![local_of(c)] = @ + 1]
            /\ UNCHANGED <<pc, outcome>>
       ELSE /\ outcome' = [outcome EXCEPT ![c] =
                    Returned(get_fallback_response(task[c], <<"API Error: ">> \o error_str, now))]
            /\ pc' = [pc EXCEPT ![c] = "done"]
            /\ UNCHANGED <<slept, retry_delay, attempt>>
    /\ calls' = [calls EXCEPT ![c] = @ + 1]
    /\ UNCHANGED <<available, task, response>>

\* generate_content returns reply in the call of c: lines 61-67 and 83-106
Succeed(c, reply, now) ==
    /\ response' = [response EXCEPT ![c] = reply]
    /\ outcome' = [outcome EXCEPT ![c] = after_response(task[c], reply, now)]
    /\ calls' = [calls EXCEPT ![c] = @ + 1]
    /\ pc' = [pc EXCEPT ![c] = "done"]
    /\ UNCHANGED <<available, task, attempt, retry_delay, slept, errors>>

\* estimate_task called directly, with any task
Call(c) ==
    /\ pc[c] = "idle"
    /\ \E t \in Tasks, now \in Timestamps : Enter(c, t, now)
    /\ UNCHANGED webvars

ProviderFail(c) ==
    /\ pc[c] = "attempt"
    /\ \E error_str \in ErrorTexts, now \in Timestamps : Fail(c, error_str, now)
    /\ UNCHANGED webvars

ProviderSucceed(c) ==
    /\ pc[c] = "attempt"
    /\ \E reply \in Replies, now \in Timestamps : Succeed(c, reply, now)
    /\ UNCHANGED webvars

\* The caller has the result; the locals of the call are gone
Leave(c) ==
    /\ pc' = [pc EXCEPT ![c] = "idle"]
    /\ task' = [task EXCEPT ![c] = <<>>]
    /\ attempt' = [attempt EXCEPT ![local_of(c)] = 0]
    /\ retry_delay' = [retry_delay EXCEPT ![local_of(c)] = 0]
    /\ calls' = [calls EXCEPT ![c] = 0]
    /\ slept' = [slept EXCEPT ![c] = <<>>]
    /\ errors' = [errors EXCEPT ![c] = <<>>]
    /\ response' = [response EXCEPT ![c] = NoReply]
    /\ outcome' = [outcome EXCEPT ![c] = NoOutcome]
    /\ UNCHANGED available

Finish(c) ==
    /\ pc[c] = "done"
    /\ Leave(c)
    /\ UNCHANGED webvars

Next ==
    \E c \in SeqCallers :
        \/ Call(c)
        \/ ProviderFail(c)
        \/ ProviderSucceed(c)
        \/ Finish(c)

Spec == Init /\ [][Next]_vars

----------------------------------------------------------------------------
(* Two callers in the same estimator at once: the handlers of a threaded *)
(* server share the module-level ai_estimator (ai_task_creator.py line   *)
(* 29).  Every step of the loop is one step of one caller.               *)

ConcTasks == {ShortTask, TaskFixLogin}
ConcErrors == {<<"503", " Service Unavailable">>, <<"400", " INVALID_ARGUMENT">>}
ConcReplies ==
    { [hasText |-> TRUE, text |-> <<DocTok(Doc(JObj, FullMembers))>>],
      [hasText |-> TRUE, text |-> <<Junk>>] }

ConcCall(c) ==
    /\ pc[c] = "idle"
    /\ \E t \in ConcTasks, now \in Timestamps : Enter(c, t, now)
    /\ UNCHANGED webvars

ConcFail(c) ==
    /\ pc[c] = "attempt"
    /\ \E error_str \in ConcErrors, now \in Timestamps : Fail(c, error_str, now)
    /\ UNCHANGED webvars

ConcSucceed(c) ==
    /\ pc[c] = "attempt"
    /\ \E reply \in ConcReplies, now \in Timestamps : Succeed(c, reply, now)
    /\ UNCHANGED webvars

ConcFinish(c) ==
    /\ pc[c] = "done"
    /\ Leave(c)
    /\ UNCHANGED webvars

ConcNext ==
    \E c \in AllCallers :
        \/ ConcCall(c)
        \/ ConcFail(c)
        \/ ConcSucceed(c)
        \/ ConcFinish(c)

SpecConc == Init /\ [][ConcNext]_vars

----------------------------------------------------------------------------
(* The cleaner on a payload and on the same payload inside a fence: the  *)
(* provider answers one call with a payload and, while that call's       *)
(* result is held, a second call with the same payload wrapped in a      *)
(* fence.                                                                *)

\* A payload of the model has at most this many tokens
MaxPayloadLen == 3

PayloadTokens ==
    {Fence, JsonTag, Space, Junk, DocTok(Doc(JObj, FullMembers)), DocTok(Doc(JNum, NoMembers))}

Payloads == UNION {[1..n -> PayloadTokens] : n \in 0..MaxPayloadLen}

\* The payload in a fence tagged json, and in a fence without a tag; the
\* fence lines are set off by line breaks
WrapTagged(payload) == <<Fence, JsonTag, Space>> \o payload \o <<Space, Fence>>
WrapUntagged(payload) == <<Fence, Space>> \o payload \o <<Space, Fence>>

\* The second call starts when the first is over
FenceCall(c) ==
    /\ pc[c] = "idle"
    /\ c = "c2" => pc["c1"] = "done"
    /\ \E now \in Timestamps : Enter(c, ShortTask, now)
    /\ UNCHANGED webvars

\* The first call is answered with a payload as it is
BareReply ==
    /\ pc["c1"] = "attempt"
    /\ \E payload \in Payloads, now \in Timestamps :
            Succeed("c1", [hasText |-> TRUE, text |-> payload], now)
    /\ UNCHANGED webvars

\* The second call is answered with the payload of the first in a fence
FencedReply ==
    /\ pc["c2"] = "attempt"
    /\ pc["c1"] = "done"
    /\ response["c1"].hasText
    /\ \E wrapped \in {WrapTagged(response["c1"].text), WrapUntagged(response["c1"].text)},
          now \in Timestamps :
            Succeed("c2", [hasText |-> TRUE, text |-> wrapped], now)
    /\ UNCHANGED webvars

\* The result of the first call is held until the second has finished
FenceFinish(c) ==
    /\ pc[c] = "done"
    /\ c = "c1" => pc["c2"] = "idle"
    /\ Leave(c)
    /\ UNCHANGED webvars

FenceNext ==
    \/ \E c \in AllCallers : FenceCall(c)
    \/ BareReply
    \/ FencedReply
    \/ \E c \in AllCallers : FenceFinish(c)

SpecFence == Init /\ [][FenceNext]_vars

----------------------------------------------------------------------------
(* str methods on the text of a task or of a title.  A piece of such text *)
(* is white space (a blank or a line break) or text without white space;  *)
(* adjacent pieces that are no white space belong to one word.            *)

Whitespace == {" ", "\n"}

RECURSIVE str_lstrip(_)
str_lstrip(s) == IF Len(s) > 0 /\ s[1] \in Whitespace THEN str_lstrip(Tail(s)) ELSE s

RECURSIVE str_rstrip(_)
str_rstrip(s) ==
    IF Len(s) > 0 /\ s[Len(s)] \in Whitespace THEN str_rstrip(DropLast(s, 1)) ELSE s

\* s.strip()
str_strip(s) == str_rstrip(str_lstrip(s))

\* The length of the first word of a text that starts with one
RECURSIVE WordLen(_)
WordLen(s) == IF Len(s) = 0 \/ s[1] \in Whitespace THEN 0 ELSE 1 + WordLen(Tail(s))

\* s.split(): the words of s
RECURSIVE str_split(_)
str_split(s) ==
    LET t == str_lstrip(s)
    IN  IF Len(t) = 0 THEN <<>>
        ELSE <<Take(t, WordLen(t))>> \o str_split(Drop(t, WordLen(t)))

\* " ".join(words)
RECURSIVE str_join(_)
str_join(words) ==
    IF Len(words) = 0 THEN <<>>
    ELSE IF Len(words) = 1 THEN words[1]
    ELSE words[1] \o <<" ">> \o str_join(Tail(words))

\* s.replace("\n", " ")
replace_newlines(s) == [i \in 1..Len(s) |-> IF s[i] = "\n" THEN " " ELSE s[i]]

\* piece.lower(), for the pieces of the model that hold an upper-case letter
lower_piece(p) ==
    CASE p = "F" -> "f"
      [] p = "Fix" -> "fix"
      [] p = "Safari" -> "safari"
      [] p = "iOS" -> "ios"
      [] p = "High" -> "high"
      [] p = "Medium" -> "medium"
      [] p = "New Ticket" -> "new ticket"
      [] OTHER -> p

\* piece.capitalize()
capitalize_piece(p) ==
    CASE p = "fix" -> "Fix"
      [] p = "x" -> "X"
      [] p = "iOS" -> "Ios"
      [] p = "high" -> "High"
      [] OTHER -> p

\* s.lower()
str_lower(s) == [i \in 1..Len(s) |-> lower_piece(s[i])]

\* s.capitalize(): the first character in upper case, the rest in lower case
str_capitalize(s) ==
    [i \in 1..Len(s) |-> IF i = 1 THEN capitalize_piece(s[i]) ELSE lower_piece(s[i])]

----------------------------------------------------------------------------
(* ai_task_creator.py: helpers of the handlers *)

\* Faulty variant: one word more
max_words_seven == 6 + 1

max_words == 6

\* generate_short_title(task)
generate_short_title(task_text) ==
    IF Len(task_text) = 0 THEN <<"New Ticket">>
    ELSE str_capitalize(str_join(Take(str_split(str_strip(replace_newlines(task_text))),
                                      max_words)))

\* hashlib.md5(text.encode()).hexdigest()[:16]: a function of the text alone;
\* two texts of the model never collide
md5_16(text) == <<"md5[:16] of ">> \o text

\* Values generate_ticket_number() draws from uuid4
TicketNumbers == {<<"TKT-", "1A2B3C4D">>, <<"TKT-", "5E6F7A8B">>}

\* d.get(k, default)
Get(d, k, default) == IF k \in DOMAIN d THEN d[k] ELSE default

\* bool(v); a number or a nested object of the model is not zero, not empty
Truthy(v) ==
    CASE v.kind = "bool" -> v.s = <<"True">>
      [] v.kind = "str" -> Len(v.s) > 0
      [] v.kind = "list" -> Len(v.items) > 0
      [] v.kind = "NoneType" -> FALSE
      [] OTHER -> TRUE

(* Request bodies (request.get_json()) and responses (jsonify(...), status) *)

\* A body: the parsed JSON value, its members when it is an object, and
\* the members of its member estimate when that is an object
Body(d, estimate_kind, estimate) ==
    [kind |-> "dict", d |-> d, estimate_kind |-> estimate_kind, estimate |-> estimate]
NullBody == [kind |-> "NoneType", d |-> EmptyDict, estimate_kind |-> "absent", estimate |-> EmptyDict]

Request(route, body) == [route |-> route, body |-> body]

\* jsonify({'success': False, 'error': error}), status
error_response(status, error) ==
    [status |-> status,
     body |-> [k \in {"success", "error"} |-> IF k = "success" THEN PyBool(FALSE) ELSE error],
     estimate |-> EmptyDict,
     ticket |-> <<>>]

----------------------------------------------------------------------------
(* POST /api/estimate: get_ai_estimate *)

\* data.get('task', '').strip(): the text, or the exception it raises
task_of(body) ==
    IF body.kind # "dict" THEN [exc |-> "AttributeError", text |-> <<>>]
    ELSE IF Get(body.d, "task", PyStr(<<>>)).kind # "str"
    THEN [exc |-> "AttributeError", text |-> <<>>]
    ELSE [exc |-> "", text |-> str_strip(Get(body.d, "task", PyStr(<<>>)).s)]

\* Faulty variant: the test of the task text is missing
is_blank_never(task_description) == FALSE

\* `if not task_description`
is_blank(task_description) == Len(task_description) = 0

\* Line 83 slices ai_response.get('reasoning', '') for the log
log_raises(ai_response) ==
    Get(ai_response, "reasoning", PyStr(<<>>)).kind \notin {"str", "list"}

\* if isinstance(v, str): v = [v]
as_list(v) == IF v.kind = "str" THEN PyList(<<v.s>>) ELSE v

\* Faulty variant: the lower limit is missing
title_fits_without_minimum(raw_title) == Len(str_split(raw_title)) <= 6

\* 3 <= len(raw_title.split()) <= 6
title_fits(raw_title) == 3 <= Len(str_split(raw_title)) /\ Len(str_split(raw_title)) <= 6

\* Lines 106-111
choose_title(ai_response, task_description) ==
    LET raw_title == Get(ai_response, "title", PyNone)
    IN  IF raw_title.kind = "str" /\ title_fits(raw_title.s)
        THEN PyStr(str_strip(raw_title.s))
        ELSE PyStr(generate_short_title(task_description))

\* Faulty variant: the ticket number goes into the hash as well
ticket_id_of_numbered(task_description, ticket_number) ==
    PyStr(md5_16(task_description \o ticket_number))

\* Line 89: the ticket id, the first 16 hex digits of the MD5 of the task text
ticket_id_of(task_description, ticket_number) == PyStr(md5_16(task_description))

\* Faulty variant: the priority is put in lower case on the way
priority_of_lowered(ai_response) ==
    LET v == Get(ai_response, "priority", PyStr(<<"Medium">>))
    IN  IF v.kind = "str" THEN PyStr(str_lower(v.s)) ELSE v

\* Line 123: the priority of the payload
priority_of(ai_response) == Get(ai_response, "priority", PyStr(<<"Medium">>))

\* Lines 88-137: response_data of a successful estimate
estimate_response(task_description, ai_response, ticket_number) ==
    [status |-> 200,
     body |->
        [k \in {"success", "ticket_id", "ticket_number", "task", "title"} |->
            CASE k = "success" -> PyBool(TRUE)
              [] k = "ticket_id" -> ticket_id_of(task_description, ticket_number)
              [] k = "ticket_number" -> PyStr(ticket_number)
              [] k = "task" -> PyStr(task_description)
              [] OTHER -> choose_title(ai_response, task_description)],
     estimate |->
        [k \in {"estimated_time", "priority", "complexity_level", "dependencies",
                "required_access", "suggested_labels", "reasoning"} |->
            CASE k = "estimated_time" -> Get(ai_response, k, PyStr(<<"Unknown">>))
              [] k = "priority" -> priority_of(ai_response)
              [] k = "complexity_level" -> Get(ai_response, k, PyStr(<<"Medium">>))
              [] k = "reasoning" -> Get(ai_response, k, PyStr(<<>>))
              [] OTHER -> as_list(Get(ai_response, k, PyList(<<>>)))],
     ticket |-> <<>>]

\* Lines 77-150: from the result of estimate_task to the response
after_estimate(task_description, result, ticket_number) ==
    IF result.how # "return" THEN error_response(500, PyStr(<<result.exc>>))
    ELSE IF log_raises(result.value) THEN error_response(500, PyStr(<<"TypeError">>))
    ELSE IF Truthy(Get(result.value, "success", PyNone))
    THEN estimate_response(task_description, result.value, ticket_number)
    ELSE error_response(500, Get(result.value, "error", PyStr(<<"AI generation failed">>)))

\* A DateTime column: NULL, or the instant it holds
NoTime == <<>>
At(now) == <<now>>

\* A row as a handler builds it, before the table gives it an id and the
\* defaults of its columns
Row(ticket_id, ticket_number, title, description, status, priority, estimated_time, tags, access_required, dependencies) ==
    [id |-> 0, ticket_id |-> ticket_id, ticket_number |-> ticket_number, title |-> title,
     description |-> description, status |-> status, priority |-> priority,
     estimated_time |-> estimated_time, tags |-> tags,
     access_required |-> access_required, dependencies |-> dependencies,
     progress_percentage |-> 0, updated_at |-> NoTime, started_at |-> NoTime,
     completed_at |-> NoTime]

\* Faulty variant: the estimate is saved as a ticket at once
persisted_by_estimate_saving(table, response_data) ==
    IF response_data.status = 200
    THEN Append(table,
            [Row(response_data.body["ticket_id"], response_data.body["ticket_number"],
                 response_data.body["title"], PyStr(<<>>), PyStr(<<"new">>),
                 response_data.estimate["priority"], response_data.estimate["estimated_time"],
                 response_data.estimate["suggested_labels"],
                 response_data.estimate["required_access"],
                 response_data.estimate["dependencies"]) EXCEPT !.id = Len(table) + 1])
    ELSE table

\* The table after get_ai_estimate answered: the handler makes no db.session
\* call (line 113: the estimate is returned without creating the ticket)
persisted_by_estimate(table, response_data) == table

----------------------------------------------------------------------------
(* The table kanban_tickets (models.py) and db.session *)

\* Faulty variant: ticket_id is not declared unique
is_unique_unchecked(table, ticket_id) == TRUE

\* ticket_id = db.Column(db.String(100), unique=True, ...)
is_unique(table, ticket_id) == \A i \in 1..Len(table) : table[i].ticket_id # ticket_id

\* nullable=False of ticket_id, ticket_number and title
not_null(row) ==
    /\ row.ticket_id.kind # "NoneType"
    /\ row.ticket_number.kind # "NoneType"
    /\ row.title.kind # "NoneType"

\* The row as the INSERT stores it: the next id, updated_at by its default
inserted(table, row, now) == [row EXCEPT !.id = Len(table) + 1, !.updated_at = At(now)]

\* The INSERTs of a flush, in the order of db.session.add
RECURSIVE flush(_, _, _)
flush(table, pending, now) ==
    IF Len(pending) = 0 THEN [exc |-> "", table |-> table]
    ELSE IF ~not_null(pending[1]) \/ ~is_unique(table, pending[1].ticket_id)
    THEN [exc |-> "IntegrityError", table |-> table]
    ELSE flush(Append(table, inserted(table, pending[1], now)), Tail(pending), now)

\* db.session.commit(): every pending row is inserted, or none is
commit(table, pending, now) ==
    IF flush(table, pending, now).exc # ""
    THEN [exc |-> flush(table, pending, now).exc, table |-> table]
    ELSE flush(table, pending, now)

\* db.session.rollback()
rollback(pending) == <<>>

----------------------------------------------------------------------------
(* POST /api/create-ticket: create_final_ticket *)

\* Lines 168-179: the KanbanTicket, or the exception its arguments raise
new_ticket(data, generated_number) ==
    LET task_value == Get(data.d, "task", PyStr(<<"New Ticket">>))
        priority == Get(data.d, "edited_priority", PyStr(<<"medium">>))
        number == Get(data.d, "ticket_number", PyNone)
        failed == [exc |-> "AttributeError",
                   row |-> Row(PyNone, PyNone, PyNone, PyNone, PyNone, PyNone, PyNone,
                               PyNone, PyNone, PyNone)]
    IN  IF data.kind # "dict" THEN failed
        ELSE IF Truthy(task_value) /\ task_value.kind # "str" THEN failed
        ELSE IF priority.kind # "str" THEN failed
        ELSE IF data.estimate_kind \notin {"absent", "dict"} THEN failed
        ELSE [exc |-> "",
              row |-> Row(Get(data.d, "ticket_id", PyNone),
                          IF Truthy(number) THEN number ELSE PyStr(generated_number),
                          Get(data.d, "title",
                              PyStr(IF Truthy(task_value)
                                    THEN generate_short_title(task_value.s)
                                    ELSE <<"New Ticket">>)),
                          Get(data.d, "edited_description", PyStr(<<>>)),
                          PyStr(<<"new">>),
                          PyStr(str_lower(priority.s)),
                          Get(data.estimate, "estimated_time", PyStr(<<"TBD">>)),
                          Get(data.estimate, "suggested_labels", PyList(<<>>)),
                          Get(data.estimate, "required_access", PyList(<<>>)),
                          Get(data.estimate, "dependencies", PyList(<<>>)))]

\* jsonify({'success': True, 'ticket': ticket_data, 'message': ...})
created_response(row) ==
    [status |-> 200,
     body |-> [k \in {"success", "message"} |->
                IF k = "success" THEN PyBool(TRUE)
                ELSE PyStr(<<"Ticket ">> \o row.ticket_number.s \o <<" created successfully!">>)],
     estimate |-> EmptyDict,
     ticket |-> <<row>>]

\* The whole handler: the response, the table and the session it leaves
create_final_ticket(data, generated_number, table, pending, now) ==
    LET built == new_ticket(data, generated_number)
        added == Append(pending, built.row)
        done == commit(table, added, now)
    IN  IF built.exc # ""
        THEN [response |-> error_response(500, PyStr(<<built.exc>>)),
              table |-> table, session |-> rollback(pending)]
        ELSE IF done.exc # ""
        THEN [response |-> error_response(500, PyStr(<<done.exc>>)),
              table |-> table, session |-> rollback(added)]
        ELSE [response |-> created_response(done.table[Len(done.table)]),
              table |-> done.table, session |-> <<>>]

----------------------------------------------------------------------------
(* The web layer: requests, replies and errors it is driven with *)

\* A ticket table of the model holds at most this many rows
MaxTickets == 3

\* d without the key k
Without(d, k) == [x \in DOMAIN d \ {k} |-> d[x]]

Title3 == <<"Repair", " ", "login", " ", "flow">>
Title6 == Title3 \o <<" ", "on", " ", "mobile", " ", "Safari">>
ModelTitles ==
    { Title3,
      Title6,
      <<"Repair", " ", "login">>,
      Title6 \o <<" ", "soon">>,
      <<" ", " ">> \o Title3 \o <<"\n">>,
      <<"Repair", " ", " ", "login", "\n", "flow">>,
      <<" ">>,
      <<>> }

\* The reply asked for, with a title of three words
WebFull == [FullMembers EXCEPT !["title"] = JStr(Title3)]

WebMembers ==
    {[WebFull EXCEPT !["title"] = JStr(t)] : t \in ModelTitles}
    \cup {[WebFull EXCEPT !["title"] = v] : v \in {JNum, JNull, JArr(<< Title3 >>)}}
    \cup {Without(WebFull, k) :
            k \in {"title", "estimated_time", "suggested_labels", "reasoning"}}
    \cup { [WebFull EXCEPT !["reasoning"] = JNull],
           [WebFull EXCEPT !["suggested_labels"] = JStr(<<"backend">>)],
           [WebFull EXCEPT !["required_access"] = JNum],
           [k \in DOMAIN WebFull \cup {"success"} |->
                IF k = "success" THEN JFalse ELSE WebFull[k]],
           NoMembers }

WebDocs ==
    {Doc(JObj, m) : m \in WebMembers} \cup {Doc(JArr(<< <<"a">>, <<"b">> >>), NoMembers)}

WebReplies ==
    {[hasText |-> TRUE, text |-> <<DocTok(d)>>] : d \in WebDocs}
    \cup { [hasText |-> TRUE, text |-> <<Fence, JsonTag, Space, DocTok(Doc(JObj, WebFull)), Space, Fence>>],
           [hasText |-> TRUE, text |-> <<Junk>>],
           NoReply }

WebErrors == {<<"503", " Service Unavailable">>, <<"400", " INVALID_ARGUMENT">>}

\* Bodies of POST /api/estimate
EstimateBodies ==
    {Body(SetItem(EmptyDict, "task", PyStr(t)), "absent", EmptyDict) : t \in WebTasks}
    \cup { Body(EmptyDict, "absent", EmptyDict),
           Body(SetItem(EmptyDict, "task", PyStr(<<>>)), "absent", EmptyDict),
           Body(SetItem(EmptyDict, "task", PyStr(<<" ", "\n">>)), "absent", EmptyDict),
           Body(SetItem(EmptyDict, "task", PyNone), "absent", EmptyDict),
           NullBody }

\* The body the preview page posts for a task: the estimate it shows and
\* the edits of the user
PreviewBody(t, n) ==
    Body([k \in {"ticket_id", "ticket_number", "task", "title", "edited_description",
                 "edited_priority"} |->
            CASE k = "ticket_id" -> PyStr(md5_16(t))
              [] k = "ticket_number" -> PyStr(n)
              [] k = "task" -> PyStr(t)
              [] k = "title" -> PyStr(generate_short_title(t))
              [] k = "edited_description" -> PyStr(t)
              [] OTHER -> PyStr(<<"High">>)],
         "dict",
         [k \in Fields \ {"title"} |-> FromJson(WebFull[k])])

DefaultNumber == <<"TKT-", "00000000">>

\* The instants at which the tickets of these runs are created
CreationTimes == {t \in Timestamps : \A u \in Timestamps : t <= u}

\* Bodies of POST /api/create-ticket
CreateBodies ==
    LET b == PreviewBody(TaskFixLogin, DefaultNumber)
    IN  { b,
          PreviewBody(str_strip(replace_newlines(TaskSafari)), DefaultNumber),
          [b EXCEPT !.d = Without(b.d, "ticket_id")],
          [b EXCEPT !.d = SetItem(b.d, "ticket_id", PyNone)],
          [b EXCEPT !.d = Without(b.d, "ticket_number")],
          [b EXCEPT !.d = SetItem(b.d, "title", PyNone)],
          [b EXCEPT !.d = SetItem(b.d, "edited_priority", PyNone)],
          [b EXCEPT !.d = Without(Without(b.d, "title"), "edited_priority"),
                    !.estimate_kind = "absent", !.estimate = EmptyDict],
          [b EXCEPT !.estimate_kind = "NoneType", !.estimate = EmptyDict],
          NullBody }

----------------------------------------------------------------------------
(* The web layer as a state machine: one request at a time per client *)

estvars == <<available, pc, task, attempt, retry_delay, calls, slept, errors, response, outcome>>

\* POST /api/estimate arrives: lines 56-75
PostEstimate(c) ==
    /\ pc[c] = "idle"
    /\ request[c] = NoRequest
    /\ \E body \in EstimateBodies, now \in Timestamps :
        /\ request' = [request EXCEPT ![c] = Request("estimate", body)]
        /\ IF task_of(body).exc # ""
           THEN /\ http' = [http EXCEPT ![c] =
                        error_response(500, PyStr(<<task_of(body).exc>>))]
                /\ UNCHANGED estvars
           ELSE IF is_blank(task_of(body).text)
           THEN /\ http' = [http EXCEPT ![c] =
                        error_response(400, PyStr(<<"Task description is required">>))]
                /\ UNCHANGED estvars
           ELSE /\ Enter(c, task_of(body).text, now)
                /\ UNCHANGED http
    /\ UNCHANGED <<tickets, session>>

\* The provider fails an attempt of the estimate
EstimateFail(c) ==
    /\ pc[c] = "attempt"
    /\ \E error_str \in WebErrors, now \in Timestamps : Fail(c, error_str, now)
    /\ UNCHANGED webvars

\* The provider answers an attempt of the estimate
EstimateSucceed(c) ==
    /\ pc[c] = "attempt"
    /\ \E reply \in WebReplies, now \in Timestamps : Succeed(c, reply, now)
    /\ UNCHANGED webvars

\* estimate_task is back and the handler answers: lines 77-150
Respond(c) ==
    /\ pc[c] = "done"
    /\ request[c].route = "estimate"
    /\ http[c] = NoResponse
    /\ \E n \in TicketNumbers :
        /\ http' = [http EXCEPT ![c] = after_estimate(task[c], outcome[c], n)]
        /\ tickets' = persisted_by_estimate(tickets, after_estimate(task[c], outcome[c], n))
    /\ UNCHANGED <<request, session>>
    /\ UNCHANGED estvars

\* POST /api/create-ticket, the whole handler: lines 153-200
CreateTicket(c) ==
    /\ pc[c] = "idle"
    /\ request[c] = NoRequest
    /\ Len(tickets) < MaxTickets
    /\ \E body \in CreateBodies, n \in TicketNumbers, now \in CreationTimes :
        /\ request' = [request EXCEPT ![c] = Request("create", body)]
        /\ http' = [http EXCEPT ![c] = create_final_ticket(body, n, tickets, session, now).response]
        /\ tickets' = create_final_ticket(body, n, tickets, session, now).table
        /\ session' = create_final_ticket(body, n, tickets, session, now).session
    /\ UNCHANGED estvars

\* The client has the response; the request is over
Close(c) ==
    /\ http[c] # NoResponse
    /\ request' = [request EXCEPT ![c] = NoRequest]
    /\ http' = [http EXCEPT ![c] = NoResponse]
    /\ IF pc[c] = "done" THEN Leave(c) ELSE UNCHANGED estvars
    /\ UNCHANGED <<tickets, session>>

WebNext ==
    \E c \in SeqCallers :
        \/ PostEstimate(c)
        \/ EstimateFail(c)
        \/ EstimateSucceed(c)
        \/ Respond(c)
        \/ CreateTicket(c)
        \/ Close(c)

SpecWeb == Init /\ [][WebNext]_vars

----------------------------------------------------------------------------
(* Two clients of POST /api/estimate, their requests interleaved *)

\* The same task text bare and padded, and another task
PairTasks == {TaskFixLogin, <<" ">> \o TaskFixLogin \o <<"\n">>, <<"fix">>}

PairBodies == {Body(SetItem(EmptyDict, "task", PyStr(t)), "absent", EmptyDict) : t \in PairTasks}

PairReplies ==
    { [hasText |-> TRUE, text |-> <<DocTok(Doc(JObj, WebFull))>>],
      [hasText |-> TRUE, text |-> <<DocTok(Doc(JObj, Without(WebFull, "title")))>>],
      [hasText |-> TRUE, text |-> <<Junk>>] }

\* POST /api/estimate arrives with a task: lines 56-75
PairPost(c) ==
    /\ pc[c] = "idle"
    /\ request[c] = NoRequest
    /\ \E body \in PairBodies, now \in Timestamps :
        /\ request' = [request EXCEPT ![c] = Request("estimate", body)]
        /\ Enter(c, task_of(body).text, now)
    /\ UNCHANGED <<http, tickets, session>>

\* The provider refuses the request of the estimate
PairFail(c) ==
    /\ pc[c] = "attempt"
    /\ \E now \in Timestamps : Fail(c, <<"400", " INVALID_ARGUMENT">>, now)
    /\ UNCHANGED webvars

\* The provider answers the estimate
PairSucceed(c) ==
    /\ pc[c] = "attempt"
    /\ \E reply \in PairReplies, now \in Timestamps : Succeed(c, reply, now)
    /\ UNCHANGED webvars

PairNext ==
    \E c \in AllCallers :
        \/ PairPost(c)
        \/ PairFail(c)
        \/ PairSucceed(c)
        \/ Respond(c)
        \/ Close(c)

SpecPair == Init /\ [][PairNext]_vars

----------------------------------------------------------------------------
(* One client: an estimate, then the ticket made from its preview *)

AssembleTasks == {TaskFixLogin, <<"fix">>}

\* The reply asked for, its priority one of Low, Medium and High
AssembleFull == [WebFull EXCEPT !["priority"] = JStr(<<"High">>)]

AssembleReplies ==
    { [hasText |-> TRUE, text |-> <<DocTok(Doc(JObj, AssembleFull))>>],
      [hasText |-> TRUE, text |-> <<DocTok(Doc(JObj, Without(AssembleFull, "estimated_time")))>>],
      [hasText |-> TRUE,
       text |-> <<DocTok(Doc(JObj, [AssembleFull EXCEPT !["suggested_labels"] = JStr(<<"backend">>)]))>>] }

\* POST /api/estimate arrives with a task: lines 56-75
AssemblePost(c) ==
    /\ pc[c] = "idle"
    /\ request[c] = NoRequest
    /\ \E t \in AssembleTasks, now \in Timestamps :
        /\ request' = [request EXCEPT ![c] =
                Request("estimate", Body(SetItem(EmptyDict, "task", PyStr(t)), "absent", EmptyDict))]
        /\ Enter(c, t, now)
    /\ UNCHANGED <<http, tickets, session>>

\* The provider answers the estimate
AssembleSucceed(c) ==
    /\ pc[c] = "attempt"
    /\ \E reply \in AssembleReplies, now \in Timestamps : Succeed(c, reply, now)
    /\ UNCHANGED webvars

\* The body the preview page posts: the payload it was given and the edits
EchoBody(payload, edited_priority) ==
    Body([k \in {"ticket_id", "ticket_number", "task", "title", "edited_description",
                 "edited_priority"} |->
            CASE k = "edited_description" -> payload.body["task"]
              [] k = "edited_priority" -> edited_priority
              [] OTHER -> payload.body[k]],
         "dict",
         payload.estimate)

\* POST /api/create-ticket with the preview that was just shown: lines 153-200
CreateFromPreview(c) ==
    /\ pc[c] = "done"
    /\ request[c].route = "estimate"
    /\ http[c].status = 200
    /\ Len(tickets) < MaxTickets
    /\ \E edited \in {http[c].estimate["priority"], PyStr(<<"Medium">>)}, n \in TicketNumbers, now \in CreationTimes :
        LET body == EchoBody(http[c], edited)
        IN  /\ request' = [request EXCEPT ![c] = Request("create", body)]
            /\ http' = [http EXCEPT ![c] = create_final_ticket(body, n, tickets, session, now).response]
            /\ tickets' = create_final_ticket(body, n, tickets, session, now).table
            /\ session' = create_final_ticket(body, n, tickets, session, now).session
    /\ UNCHANGED estvars

AssembleNext ==
    \E c \in SeqCallers :
        \/ AssemblePost(c)
        \/ AssembleSucceed(c)
        \/ Respond(c)
        \/ CreateFromPreview(c)
        \/ Close(c)

SpecAssemble == Init /\ [][AssembleNext]_vars

----------------------------------------------------------------------------
(* The board: PATCH /api/kanban-tickets/<id>, PATCH /api/ticket/<identifier> *)
(* and POST /api/kanban-tickets/reset                                        *)

Max(a, b) == IF a > b THEN a ELSE b

\* An int of a JSON body, its value in decimal digits
PyNumber(n) == [kind |-> "int", s |-> <<ToString(n)>>, items |-> <<>>]

\* The integers a decimal text of these runs can stand for
Decimals == -10..300
IsDecimal(text) == \E n \in Decimals : ToString(n) = text
IntOf(text) == CHOOSE n \in Decimals : ToString(n) = text

\* int(x): the number, or the exception it raises
py_int(v) ==
    CASE v.kind = "int" /\ Len(v.s) = 1 -> [exc |-> "", n |-> IntOf(v.s[1])]
      [] v.kind = "bool" -> [exc |-> "", n |-> IF v.s = <<"True">> THEN 1 ELSE 0]
      [] v.kind = "str" ->
            IF Len(v.s) = 1 /\ IsDecimal(v.s[1])
            THEN [exc |-> "", n |-> IntOf(v.s[1])]
            ELSE [exc |-> "ValueError", n |-> 0]
      [] OTHER -> [exc |-> "TypeError", n |-> 0]

\* Faulty variant: the number is stored as it came
clamp_missing(n) == n

\* Line 171: max(0, min(100, n))
clamp(n) == Max(0, Min(100, n))

valid_statuses == {<<"new">>, <<"in_progress">>, <<"review">>, <<"completed">>, <<"blocked">>}

\* Line 147: new_status in ['new', 'in_progress', 'review', 'completed', 'blocked']
is_valid_status(v) == v.kind = "str" /\ v.s \in valid_statuses

\* KanbanTicket.query.get(id): the index of the row, 0 when there is none
query_get(table, id) ==
    IF \E i \in 1..Len(table) : table[i].id = id
    THEN CHOOSE i \in 1..Len(table) : table[i].id = id
    ELSE 0

\* query.filter_by(column=value).first(): the index of the first such row
filter_by_first(table, column, value) ==
    IF \E i \in 1..Len(table) : table[i][column] = value
    THEN CHOOSE i \in 1..Len(table) :
            /\ table[i][column] = value
            /\ \A j \in 1..(i - 1) : table[j][column] # value
    ELSE 0

\* The row as the UPDATE of a commit stores it: updated_at follows every change
updated(old, new, now) == IF new = old THEN old ELSE [new EXCEPT !.updated_at = At(now)]

\* db.session.commit() of a handler that changed row i
commit_row(table, i, row, now) == [table EXCEPT ![i] = updated(table[i], row, now)]

\* Faulty variant: the changes made before the exception stay
rollback_row_kept(table, i, row, now) == [table EXCEPT ![i] = row]

\* db.session.rollback() of a handler that changed row i
rollback_row(table, i, row, now) == table

\* jsonify({'success': True, ...}) about a ticket
ticket_response(row, members) ==
    [status |-> 200,
     body |-> SetItem(members, "success", PyBool(TRUE)),
     estimate |-> EmptyDict,
     ticket |-> <<row>>]

\* Faulty variant: a ticket that was started is started again
kanban_started_again(ticket, now) ==
    [ticket EXCEPT !.started_at = At(now),
                   !.progress_percentage = IF @ = 0 THEN 10 ELSE @]

\* Lines 156-159: the move to in_progress
kanban_started(ticket, now) ==
    IF ticket.started_at = NoTime
    THEN [ticket EXCEPT !.started_at = At(now),
                        !.progress_percentage = IF @ = 0 THEN 10 ELSE @]
    ELSE ticket

\* Faulty variant: the timestamps of a ticket that becomes new stay
kanban_renewed_keeping(ticket) == [ticket EXCEPT !.progress_percentage = 0]

\* Lines 164-167: the move to new
kanban_renewed(ticket) ==
    [ticket EXCEPT !.progress_percentage = 0, !.started_at = NoTime, !.completed_at = NoTime]

\* Lines 161-163: the move to completed
kanban_completed(ticket, now) ==
    IF ticket.completed_at = NoTime
    THEN [ticket EXCEPT !.completed_at = At(now), !.progress_percentage = 100]
    ELSE ticket

\* Lines 152-167: the new status and what follows from it
kanban_transition(ticket, new_status, now) ==
    LET t == [ticket EXCEPT !.status = new_status, !.updated_at = At(now)]
    IN  IF new_status = PyStr(<<"in_progress">>) THEN kanban_started(t, now)
        ELSE IF new_status = PyStr(<<"completed">>) THEN kanban_completed(t, now)
        ELSE IF new_status = PyStr(<<"new">>) THEN kanban_renewed(t)
        ELSE t

\* PATCH /api/kanban-tickets/<ticket_id>, the whole handler: lines 136-182
update_ticket_status(ticket_id, data, table, now) ==
    LET i == query_get(table, ticket_id)
        new_status == Get(data.d, "status", PyNone)
        new_progress == Get(data.d, "progress_percentage", PyNone)
        moved == IF Truthy(new_status)
                 THEN kanban_transition(table[i], new_status, now)
                 ELSE table[i]
        dirty == IF new_progress.kind = "NoneType" THEN moved
                 ELSE [moved EXCEPT !.progress_percentage = clamp(py_int(new_progress).n)]
    IN  IF i = 0
        THEN [response |-> error_response(404, PyStr(<<"Ticket not found">>)), table |-> table]
        ELSE IF data.kind # "dict"
        THEN [response |-> error_response(500, PyStr(<<"AttributeError">>)),
              table |-> rollback_row(table, i, table[i], now)]
        ELSE IF Truthy(new_status) /\ ~is_valid_status(new_status)
        THEN [response |-> error_response(400, PyStr(<<"Invalid status">>)), table |-> table]
        ELSE IF new_progress.kind # "NoneType" /\ py_int(new_progress).exc # ""
        THEN [response |-> error_response(500, PyStr(<<py_int(new_progress).exc>>)),
              table |-> rollback_row(table, i, moved, now)]
        ELSE [response |-> ticket_response(commit_row(table, i, dirty, now)[i], EmptyDict),
              table |-> commit_row(table, i, dirty, now)]

\* str.isdigit() of the identifier in the path
isdigit(identifier) ==
    /\ Len(identifier) = 1
    /\ IsDecimal(identifier[1])
    /\ IntOf(identifier[1]) >= 0

\* Lines 72-80: the ticket by id, by ticket_number, then by ticket_id
find_ticket(table, identifier) ==
    IF isdigit(identifier) THEN query_get(table, IntOf(identifier[1]))
    ELSE IF filter_by_first(table, "ticket_number", PyStr(identifier)) # 0
    THEN filter_by_first(table, "ticket_number", PyStr(identifier))
    ELSE filter_by_first(table, "ticket_id", PyStr(identifier))

\* Faulty variant: the move to new also puts the progress back to 0
preview_transition_resetting(ticket, new_status, now) ==
    LET old_status == ticket.status
        t == [ticket EXCEPT !.status = new_status]
    IN  IF new_status = PyStr(<<"in_progress">>) /\ old_status # PyStr(<<"in_progress">>)
        THEN [t EXCEPT !.started_at = At(now)]
        ELSE IF new_status = PyStr(<<"completed">>) /\ old_status # PyStr(<<"completed">>)
        THEN [t EXCEPT !.completed_at = At(now), !.progress_percentage = 100]
        ELSE IF new_status = PyStr(<<"new">>)
        THEN [t EXCEPT !.started_at = NoTime, !.completed_at = NoTime,
                       !.progress_percentage = 0]
        ELSE t

\* Lines 96-109: the new status and what follows from it
preview_transition(ticket, new_status, now) ==
    LET old_status == ticket.status
        t == [ticket EXCEPT !.status = new_status]
    IN  IF new_status = PyStr(<<"in_progress">>) /\ old_status # PyStr(<<"in_progress">>)
        THEN [t EXCEPT !.started_at = At(now)]
        ELSE IF new_status = PyStr(<<"in_progress">>) THEN t
        ELSE IF new_status = PyStr(<<"completed">>) /\ old_status # PyStr(<<"completed">>)
        THEN [t EXCEPT !.completed_at = At(now), !.progress_percentage = 100]
        ELSE IF new_status = PyStr(<<"completed">>) THEN t
        ELSE IF new_status = PyStr(<<"new">>)
        THEN [t EXCEPT !.started_at = NoTime, !.completed_at = NoTime]
        ELSE t

\* Faulty variant: a status that is given counts as a change
status_changes_if_given(data, ticket) == "status" \in DOMAIN data.d

\* Line 95: 'status' in data and data['status'] != ticket.status
status_changes(data, ticket) ==
    "status" \in DOMAIN data.d /\ data.d["status"] # ticket.status

\* PATCH /api/ticket/<ticket_identifier>, the whole handler: lines 69-143
update_ticket(ticket_identifier, data, table, now) ==
    LET i == find_ticket(table, ticket_identifier)
        has_status == status_changes(data, table[i])
        has_tags == "tags" \in DOMAIN data.d /\ data.d["tags"].kind # "NoneType"
        moved == IF has_status THEN preview_transition(table[i], data.d["status"], now)
                 ELSE table[i]
        tagged == IF has_tags THEN [moved EXCEPT !.tags = data.d["tags"]] ELSE moved
        changed == has_status \/ has_tags
        dirty == IF changed THEN [tagged EXCEPT !.updated_at = At(now)] ELSE tagged
        stored == IF changed THEN commit_row(table, i, dirty, now) ELSE table
        members == [k \in {"old_status", "message"} |->
                        IF k = "old_status" THEN table[i].status
                        ELSE PyStr(IF changed THEN <<"Ticket updated successfully">>
                                   ELSE <<"No changes made">>)]
    IN  IF i = 0
        THEN [response |-> error_response(404, PyStr(<<"Ticket not found">>)), table |-> table,
              committed |-> FALSE]
        ELSE IF data.kind # "dict"
        THEN [response |-> error_response(500, PyStr(<<"Server error">>)),
              table |-> rollback_row(table, i, table[i], now), committed |-> FALSE]
        ELSE [response |-> ticket_response(stored[i], members), table |-> stored,
              committed |-> changed]

\* Faulty variant: the reset leaves the progress of a ticket
reset_ticket_keeping_progress(ticket, now) ==
    [ticket EXCEPT !.status = PyStr(<<"new">>),
                   !.started_at = NoTime, !.completed_at = NoTime, !.updated_at = At(now)]

\* Lines 189-194: a ticket as the reset leaves it
reset_ticket(ticket, now) ==
    [ticket EXCEPT !.status = PyStr(<<"new">>), !.progress_percentage = 0,
                   !.started_at = NoTime, !.completed_at = NoTime, !.updated_at = At(now)]

\* Lines 188-194: every ticket of the table, reset
RECURSIVE reset_rows(_, _)
reset_rows(table, now) ==
    IF Len(table) = 0 THEN <<>>
    ELSE <<reset_ticket(table[1], now)>> \o reset_rows(Tail(table), now)

\* What the database raises on db.session.commit(): nothing, or an error
DbErrors == {"", "OperationalError"}

\* Line 203: db.session.rollback() of a handler that changed rows
rollback_rows(table, dirty) == table

\* POST /api/kanban-tickets/reset, the whole handler: lines 185-205
reset_all_tickets(table, now, db_error) ==
    IF db_error # ""
    THEN [response |-> error_response(500, PyStr(<<db_error>>)),
          table |-> rollback_rows(table, reset_rows(table, now))]
    ELSE [response |->
            [status |-> 200,
             body |-> [k \in {"success", "message"} |->
                        IF k = "success" THEN PyBool(TRUE)
                        ELSE PyStr(<<"Reset ", ToString(Len(table)), " tickets to new status">>)],
             estimate |-> EmptyDict,
             ticket |-> <<>>],
          table |-> reset_rows(table, now)]

----------------------------------------------------------------------------
(* The board as a state machine: the handlers, one request at a time.    *)
(* A response goes to the client and leaves nothing behind, so a step    *)
(* changes the table only; what a request was answered is the value the  *)
(* handler's operator gives for it.                                      *)

BoardNumberA == <<"TKT-", "1A2B3C4D">>
BoardNumberB == <<"TKT-", "5E6F7A8B">>

\* The tickets of the board: two previews, confirmed as they were shown
BoardBodyA == PreviewBody(TaskFixLogin, BoardNumberA)
BoardBodyB == PreviewBody(<<"fix">>, BoardNumberB)

\* The instants of a row that are set
TimesOf(row) == {row.updated_at, row.started_at, row.completed_at} \ {NoTime}

\* datetime.utcnow(): an instant not before any the table holds
utcnow(table) ==
    {t \in Timestamps : \A k \in 1..Len(table) : \A u \in TimesOf(table[k]) : u[1] <= t}

StatusBody(status) == Body(SetItem(EmptyDict, "status", PyStr(<<status>>)), "absent", EmptyDict)
ProgressBody(progress) == Body(SetItem(EmptyDict, "progress_percentage", progress), "absent", EmptyDict)
BothBody(status, progress) == Body(SetItem(StatusBody(status).d, "progress_percentage", progress), "absent", EmptyDict)

\* Bodies of PATCH /api/kanban-tickets/<id>
KanbanBodies ==
    {StatusBody(st) : st \in {"new", "in_progress", "review", "completed", "blocked", "archived"}}
    \cup {ProgressBody(v) : v \in {PyNumber(-5), PyNumber(50), PyNumber(250), PyStr(<<"abc">>)}}
    \cup { BothBody("new", PyNumber(50)),
           BothBody("in_progress", PyNumber(50)),
           BothBody("in_progress", PyStr(<<"abc">>)),
           BothBody("archived", PyNumber(50)),
           Body(SetItem(EmptyDict, "status", PyStr(<<>>)), "absent", EmptyDict),
           Body(SetItem(ProgressBody(PyNumber(50)).d, "status", PyStr(<<>>)), "absent", EmptyDict),
           Body(EmptyDict, "absent", EmptyDict),
           NullBody }

\* The second ticket is only ever started; the first gets every request
KanbanRequests ==
    {[id |-> id, body |-> body] : id \in {1, 3}, body \in KanbanBodies}
    \cup {[id |-> 2, body |-> StatusBody("in_progress")]}

BoardTags == PyList(<< <<"urgent">> >>)

\* Bodies of PATCH /api/ticket/<identifier>
PreviewPatchBodies ==
    {StatusBody(st) : st \in {"new", "in_progress", "completed", "archived"}}
    \cup { Body(SetItem(EmptyDict, "tags", BoardTags), "absent", EmptyDict),
           Body(SetItem(StatusBody("review").d, "tags", BoardTags), "absent", EmptyDict),
           Body(SetItem(EmptyDict, "tags", PyNone), "absent", EmptyDict),
           Body(EmptyDict, "absent", EmptyDict),
           NullBody }

\* The identifiers in the path: the first ticket by its id, its ticket
\* number and its ticket id, and a number no ticket has
PreviewIdentifiers == {<<"1">>, BoardNumberA, md5_16(TaskFixLogin), <<"TKT-", "00000000">>}

\* POST /api/create-ticket from the preview page, the first preview first:
\* lines 153-200
BoardCreateOf(c, body, now) ==
    /\ pc[c] = "idle"
    /\ tickets' = create_final_ticket(body, DefaultNumber, tickets, session, now).table
    /\ session' = create_final_ticket(body, DefaultNumber, tickets, session, now).session
    /\ UNCHANGED <<request, http>>
    /\ UNCHANGED estvars

BoardCreate(c) ==
    \E body \in {BoardBodyA} \cup (IF Len(tickets) > 0 THEN {BoardBodyB} ELSE {}) :
        \E now \in utcnow(tickets) : BoardCreateOf(c, body, now)

\* PATCH /api/kanban-tickets/<ticket_id>: lines 136-182
KanbanPatchOf(c, id, body, now) ==
    /\ pc[c] = "idle"
    /\ tickets' = update_ticket_status(id, body, tickets, now).table
    /\ UNCHANGED <<request, http, session>>
    /\ UNCHANGED estvars

KanbanPatch(c) ==
    \E r \in KanbanRequests, now \in utcnow(tickets) : KanbanPatchOf(c, r.id, r.body, now)

\* PATCH /api/ticket/<ticket_identifier>: lines 69-143
PreviewPatchOf(c, identifier, body, now) ==
    /\ pc[c] = "idle"
    /\ tickets' = update_ticket(identifier, body, tickets, now).table
    /\ UNCHANGED <<request, http, session>>
    /\ UNCHANGED estvars

PreviewPatch(c) ==
    \E identifier \in PreviewIdentifiers, body \in PreviewPatchBodies, now \in utcnow(tickets) :
        PreviewPatchOf(c, identifier, body, now)

\* POST /api/kanban-tickets/reset: lines 185-205
ResetTicketsOf(c, now, db_error) ==
    /\ pc[c] = "idle"
    /\ tickets' = reset_all_tickets(tickets, now, db_error).table
    /\ UNCHANGED <<request, http, session>>
    /\ UNCHANGED estvars

ResetTickets(c) ==
    \E now \in utcnow(tickets), db_error \in DbErrors : ResetTicketsOf(c, now, db_error)

BoardNext ==
    \E c \in SeqCallers :
        \/ BoardCreate(c)
        \/ KanbanPatch(c)
        \/ PreviewPatch(c)
        \/ ResetTickets(c)

SpecBoard == Init /\ [][BoardNext]_vars

----------------------------------------------------------------------------
(* Vocabulary of the properties *)

Done(c) == pc[c] = "done"

\* The dict a finished call returned
Result(c) == outcome[c].value

HasTrue(d, k) == k \in DOMAIN d /\ d[k] = PyBool(TRUE)
HasFalse(d, k) == k \in DOMAIN d /\ d[k] = PyBool(FALSE)

\* The error text carries one of the transient signatures
HasSignature(e) ==
    \E i \in 1..Len(e) : e[i] \in {"503", "429", "UNAVAILABLE"}

NonEmptyStr(d, k) == k \in DOMAIN d /\ d[k].kind = "str" /\ Len(d[k].s) > 0
NonEmptyList(d, k) == k \in DOMAIN d /\ d[k].kind = "list" /\ Len(d[k].items) > 0

\* A fallback result: success false, the marker, an error text
IsFallback(d) ==
    /\ HasFalse(d, "success")
    /\ HasTrue(d, "fallback")
    /\ NonEmptyStr(d, "error")

RECURSIVE SumSeq(_)
SumSeq(q) == IF Len(q) = 0 THEN 0 ELSE q[1] + SumSeq(Tail(q))

\* The reply holds a JSON document, bare, padded or inside a closed fence
StrippableWrappers ==
    { [pre |-> <<>>, post |-> <<>>],
      [pre |-> <<Fence, JsonTag, Space>>, post |-> <<Space, Fence>>],
      [pre |-> <<Fence, Space>>, post |-> <<Space, Fence>>],
      [pre |-> <<Space>>, post |-> <<Space>>] }

\* The reply is a document inside wrapper w
WrapsDoc(reply, w) ==
    LET n == Len(w.pre)
    IN  /\ reply.hasText
        /\ Len(reply.text) = n + 1 + Len(w.post)
        /\ reply.text[n + 1].tok = "doc"
        /\ reply.text = w.pre \o <<reply.text[n + 1]>> \o w.post

HoldsDoc(reply, d) ==
    \E w \in StrippableWrappers :
        WrapsDoc(reply, w) /\ reply.text[Len(w.pre) + 1].doc = d

HoldsObject(reply) ==
    \E w \in StrippableWrappers :
        WrapsDoc(reply, w) /\ reply.text[Len(w.pre) + 1].doc.kind = "object"

\* The members of the object a reply holds
MembersOf(reply) ==
    LET w == CHOOSE x \in StrippableWrappers : WrapsDoc(reply, x)
    IN  reply.text[Len(w.pre) + 1].doc.members

\* The reply is text that is no JSON once the fences are stripped
NotJson(reply) ==
    /\ reply.hasText
    /\ \/ \A i \in 1..Len(reply.text) : reply.text[i].tok # "doc"
       \/ (Len(reply.text) > 0 /\ reply.text[1].tok = "json")

----------------------------------------------------------------------------
(* C1: estimate_task terminates and returns a result value for every     *)
(* provider behaviour: a call never ends by raising, every finished call *)
(* returned a dict that carries success, and the retry loop stays inside *)
(* its range, so a call ends after at most max_retries provider replies. *)
C1_AlwaysReturns ==
    \A c \in AllCallers :
        /\ outcome[c].how # "raise"
        /\ Done(c) => (outcome[c].how = "return" /\ "success" \in DOMAIN Result(c))
        /\ pc[c] = "attempt" => (outcome[c].how = "none" /\ attempt[c] < 3)

\* A call that got JSON that is no object after two failed attempts, and returned
C1_Witness ==
    \E c \in AllCallers :
        /\ Done(c) /\ outcome[c].how = "return"
        /\ Len(errors[c]) = 2
        /\ HoldsDoc(response[c], Doc(JNull, NoMembers))

(* C2: as claimed: every returned result holds all eight fields of an *)
(* estimate, whatever the reply held.                                 *)
C2_Original ==
    \A c \in AllCallers :
        (Done(c) /\ outcome[c].how = "return") => Fields \subseteq DOMAIN Result(c)

(* C2, amended: a result with success false holds all eight fields; a   *)
(* result with success true holds the members of the reply's object and *)
(* success, so a field the reply left out is absent from it.            *)
C2_Amended ==
    \A c \in AllCallers :
        (Done(c) /\ outcome[c].how = "return") =>
            \/ (HasFalse(Result(c), "success") /\ Fields \subseteq DOMAIN Result(c))
            \/ /\ HasTrue(Result(c), "success")
               /\ HoldsObject(response[c]) =>
                    DOMAIN Result(c) = DOMAIN MembersOf(response[c]) \cup {"success"}

\* A successful result for a reply that left reasoning out
C2_Witness ==
    \E c \in AllCallers :
        /\ Done(c) /\ HasTrue(Result(c), "success")
        /\ HoldsObject(response[c])
        /\ "reasoning" \notin DOMAIN Result(c)
        /\ "title" \in DOMAIN Result(c)

(* C3: in every returned result each of required_access, dependencies  *)
(* and suggested_labels that is present is a sequence, whatever JSON   *)
(* type the reply gave it.                                             *)
C3_ArraysAreSequences ==
    \A c \in AllCallers :
        (Done(c) /\ outcome[c].how = "return") =>
            \A k \in ArrayFields \cap DOMAIN Result(c) : Result(c)[k].kind = "list"

(* C4: a call invokes the provider at most 3 times, every attempt after *)
(* the first follows a failure with a transient signature, and the wait *)
(* before attempt 2 is 2 and before attempt 3 is 4.                     *)
C4_BoundedRetries ==
    \A c \in AllCallers :
        LET attempts == IF pc[c] = "attempt" THEN calls[c] + 1 ELSE calls[c]
        IN  /\ calls[c] <= 3
            /\ attempts <= 3
            /\ \A i \in 1..Len(errors[c]) : i < attempts => HasSignature(errors[c][i])
            /\ Len(slept[c]) = IF attempts = 0 THEN 0 ELSE attempts - 1
            /\ slept[c] = SubSeq(<<2, 4>>, 1, Len(slept[c]))

\* A call that made three attempts
C4_Witness ==
    \E c \in AllCallers : Done(c) /\ calls[c] = 3 /\ slept[c] = <<2, 4>>

(* C5: a failure that is not transient ends the call at once: it is the *)
(* last attempt, no wait follows it, and the fallback is returned.      *)
C5_PermanentFailureFallsBack ==
    \A c \in AllCallers :
        \A i \in 1..Len(errors[c]) :
            ~HasSignature(errors[c][i]) =>
                /\ i = Len(errors[c])
                /\ Done(c)
                /\ calls[c] = i
                /\ Len(slept[c]) = i - 1
                /\ outcome[c].how = "return"
                /\ IsFallback(Result(c))

\* A failure that is not transient on the third attempt
C5_Witness ==
    \E c \in AllCallers :
        /\ Done(c) /\ Len(errors[c]) = 3
        /\ ~HasSignature(errors[c][3])

(* C6, as claimed: after transient failures on attempts 1 and 2 and a    *)
(* JSON object on attempt 3 the result has success true and no fallback  *)
(* marker, and the waits before the third attempt add up to at least 6.  *)
C6_Original ==
    \A c \in AllCallers :
        (Done(c) /\ Len(errors[c]) = 2 /\ calls[c] = 3 /\ HoldsObject(response[c])) =>
            /\ outcome[c].how = "return"
            /\ HasTrue(Result(c), "success")
            /\ "fallback" \notin DOMAIN Result(c)
            /\ SumSeq(slept[c]) >= 6

(* C6, amended: in that case the result has success true, the waits add *)
(* up to at least 6, and the result carries a fallback marker only when *)
(* the reply's object itself has a member named fallback.               *)
C6_Amended ==
    \A c \in AllCallers :
        (Done(c) /\ Len(errors[c]) = 2 /\ calls[c] = 3 /\ HoldsObject(response[c])) =>
            /\ outcome[c].how = "return"
            /\ HasTrue(Result(c), "success")
            /\ "fallback" \in DOMAIN Result(c) <=> "fallback" \in DOMAIN MembersOf(response[c])
            /\ SumSeq(slept[c]) >= 6

\* Two transient failures, then the complete reply inside a json fence
C6_Witness ==
    \E c \in AllCallers :
        /\ Done(c) /\ Len(errors[c]) = 2 /\ calls[c] = 3
        /\ HasSignature(errors[c][1]) /\ HasSignature(errors[c][2])
        /\ response[c].hasText
        /\ response[c].text = <<Fence, JsonTag, Space, DocTok(Doc(JObj, FullMembers)), Space, Fence>>
        /\ HasTrue(Result(c), "success")

(* C7: the waits of a call add up to at most 6, and a call whose three *)
(* attempts all failed returns the fallback after two waits: none      *)
(* follows the last failure.                                           *)
C7_TotalBackoff ==
    \A c \in AllCallers :
        /\ SumSeq(slept[c]) <= 6
        /\ Len(errors[c]) = 3 =>
                /\ Done(c)
                /\ outcome[c].how = "return"
                /\ IsFallback(Result(c))
                /\ Len(slept[c]) = 2

\* Three transient failures
C7_Witness ==
    \E c \in AllCallers :
        /\ Done(c) /\ Len(errors[c]) = 3
        /\ \A i \in 1..3 : HasSignature(errors[c][i])

(* C8: a reply whose text is no JSON once the fences are stripped ends *)
(* the call: the provider is not asked again, and the fallback with    *)
(* success false and an error text is returned.                        *)
C8_ParseFailureNotRetried ==
    \A c \in AllCallers :
        NotJson(response[c]) =>
            /\ Done(c)
            /\ calls[c] = Len(errors[c]) + 1
            /\ outcome[c].how = "return"
            /\ IsFallback(Result(c))

\* Text that is no JSON inside a fence, on the first attempt
C8_Witness ==
    \E c \in AllCallers :
        /\ Done(c) /\ calls[c] = 1
        /\ response[c].hasText
        /\ response[c].text = <<Fence, JsonTag, Space, Junk, Space, Fence>>

(* C9: an estimator constructed without a credential never invokes the *)
(* provider and answers every call with the fallback, and no step of   *)
(* estimate_task changes available.                                    *)
C9_UnavailableIsPersistent ==
    /\ [](~available =>
            \A c \in AllCallers :
                /\ calls[c] = 0
                /\ pc[c] # "attempt"
                /\ Done(c) => (outcome[c].how = "return" /\ IsFallback(Result(c))))
    /\ [][available' = available]_vars

\* A call on an unavailable estimator has returned
C9_Witness ==
    \E c \in AllCallers : ~available /\ Done(c) /\ task[c] = LongTask

(* C10: every result with success false holds reasoning, dependencies,  *)
(* required_access and suggested_labels, none of them null and the      *)
(* three arrays sequences that are not empty, a non-empty error text    *)
(* and the fallback marker.                                             *)
C10_FailureIsPopulated ==
    \A c \in AllCallers :
        (Done(c) /\ outcome[c].how = "return" /\ ~HasTrue(Result(c), "success")) =>
            /\ NonEmptyStr(Result(c), "reasoning")
            /\ \A k \in ArrayFields : NonEmptyList(Result(c), k)
            /\ NonEmptyStr(Result(c), "error")
            /\ HasTrue(Result(c), "fallback")
            /\ HasFalse(Result(c), "success")

\* A fallback returned for a reply that has no text
C10_Witness ==
    \E c \in AllCallers :
        /\ Done(c) /\ calls[c] = 1
        /\ ~response[c].hasText
        /\ HasFalse(Result(c), "success")

----------------------------------------------------------------------------
(* Vocabulary of the properties of the web layer *)

\* Caller c is being served, or was just answered, a POST /api/estimate
Estimating(c) == request[c].route = "estimate"

\* The handler has answered
Answered(c) == http[c] # NoResponse

\* The body is an object whose task is absent, empty or white space only
BlankTask(body) ==
    /\ body.kind = "dict"
    /\ \/ "task" \notin DOMAIN body.d
       \/ /\ body.d["task"].kind = "str"
          /\ \A i \in 1..Len(body.d["task"].s) : body.d["task"].s[i] \in Whitespace

\* A step of the estimate operation
EstimateStep ==
    \E c \in AllCallers :
        \/ PostEstimate(c)
        \/ EstimateFail(c)
        \/ EstimateSucceed(c)
        \/ Respond(c)
        \/ (Estimating(c) /\ Close(c))

(* C11: when estimate_task returns a fallback result, POST /api/estimate *)
(* answers with the content of the fallback (title, estimated_time,      *)
(* priority, complexity_level, dependencies, required_access,            *)
(* suggested_labels, reasoning) and not with an error response.          *)
C11_FallbackIsPreviewed ==
    \A c \in AllCallers :
        (Estimating(c) /\ Done(c) /\ Answered(c) /\ IsFallback(Result(c))) =>
            /\ http[c].status = 200
            /\ "title" \in DOMAIN http[c].body
            /\ \A k \in Fields \ {"title"} :
                    k \in DOMAIN http[c].estimate /\ http[c].estimate[k] = Result(c)[k]

(* C12: a request to POST /api/estimate whose task is absent, empty or   *)
(* white space only is answered 400 with success false, estimate_task is *)
(* not entered and the provider is not invoked, and the response holds   *)
(* an error text only, no estimate and no fallback marker.               *)
C12_BlankTaskRejected ==
    \A c \in AllCallers :
        (Estimating(c) /\ BlankTask(request[c].body)) =>
            /\ http[c].status = 400
            /\ HasFalse(http[c].body, "success")
            /\ DOMAIN http[c].body = {"success", "error"}
            /\ http[c].estimate = EmptyDict
            /\ pc[c] = "idle"
            /\ calls[c] = 0
            /\ outcome[c] = NoOutcome

\* A task of white space only was rejected
C12_Witness ==
    \E c \in AllCallers :
        /\ Estimating(c)
        /\ "task" \in DOMAIN request[c].body.d
        /\ request[c].body.d["task"] = PyStr(<<" ", "\n">>)
        /\ http[c].status = 400

(* C13: no step of the estimate operation (the request, the attempts of  *)
(* estimate_task, the response; success, fallback, rejection and         *)
(* exception alike) changes the ticket table.                            *)
C13_EstimateLeavesTickets == [][EstimateStep => tickets' = tickets]_vars

\* An estimate was answered with a preview while the table holds a ticket
C13_Witness ==
    \E c \in AllCallers :
        /\ Estimating(c)
        /\ http[c].status = 200
        /\ Len(tickets) > 0

----------------------------------------------------------------------------
(* Vocabulary of the properties of concurrent calls *)

\* The retry loop of a call that runs alone and whose provider fails with
\* errs, in order: the attempts made, the waits, and the error that ended
\* the loop if one did.  n is the loop variable, delay the current delay.
RECURSIVE SoloLoop(_, _, _, _)
SoloLoop(errs, n, delay, waits) ==
    IF Len(errs) = 0
    THEN [ended |-> FALSE, calls |-> n, slept |-> waits, error |-> <<>>]
    ELSE IF is_transient(errs[1]) /\ may_retry(n)
    THEN SoloLoop(Tail(errs), n + 1, next_delay(delay), Append(waits, delay))
    ELSE [ended |-> TRUE, calls |-> n + 1, slept |-> waits, error |-> errs[1]]

\* What a call that runs alone makes of task t when its provider fails
\* with errs and then, if answered, returns reply
Solo(is_available, t, errs, answered, reply, now) ==
    LET loop == SoloLoop(errs, 0, base_retry_delay, <<>>)
    IN  IF short_circuit(is_available)
        THEN [calls |-> 0, slept |-> <<>>,
              outcome |-> Returned(get_fallback_response(t, <<>>, now))]
        ELSE IF loop.ended
        THEN [calls |-> loop.calls, slept |-> loop.slept,
              outcome |-> Returned(get_fallback_response(t, <<"API Error: ">> \o loop.error, now))]
        ELSE IF answered
        THEN [calls |-> loop.calls + 1, slept |-> loop.slept,
              outcome |-> after_response(t, reply, now)]
        ELSE [calls |-> loop.calls, slept |-> loop.slept, outcome |-> NoOutcome]

(* C14: in every interleaving of two calls of estimate_task on the same  *)
(* estimator, the provider invocations, the backoff delays and the       *)
(* result of each call are those of a call that runs alone with the same *)
(* task against the same provider outcomes; the estimator's availability *)
(* is not written.                                                       *)
C14_CallsAreIndependent ==
    /\ [][available' = available]_vars
    /\ [](\A c \in AllCallers :
            pc[c] # "idle" =>
                \E now \in Timestamps :
                    LET alone == Solo(available, task[c], errors[c], Done(c), response[c], now)
                    IN  /\ calls[c] = alone.calls
                        /\ slept[c] = alone.slept
                        /\ outcome[c] = alone.outcome)

\* Both calls are over, one after two waits and the other after one, so
\* their retry loops overlapped or followed each other in some order
C14_Witness ==
    /\ Done("c1") /\ Done("c2")
    /\ slept["c1"] = <<2, 4>>
    /\ slept["c2"] = <<2>>
    /\ HasTrue(Result("c1"), "success")
    /\ IsFallback(Result("c2"))

----------------------------------------------------------------------------
(* Vocabulary of the properties of the ticket table *)

\* The ticket_id a create-ticket body carries; None when it carries none
TicketIdOf(body) == Get(body.d, "ticket_id", PyNone)

\* Some row of the table has this ticket_id
Persisted(table, ticket_id) == \E i \in 1..Len(table) : table[i].ticket_id = ticket_id

\* Caller c posts a create-ticket request in this step
CreateStep(c) == request[c] = NoRequest /\ request'[c].route = "create"

(* C15: no two rows of the ticket table share a ticket_id; and a         *)
(* create-ticket request whose ticket_id is already in the table, or     *)
(* which has none, is answered with success false, leaves the table as   *)
(* it was and leaves nothing pending in the session.                     *)
C15_TicketIdIsUnique ==
    /\ [](\A i, j \in 1..Len(tickets) : i # j => tickets[i].ticket_id # tickets[j].ticket_id)
    /\ [][\A c \in AllCallers :
            (/\ CreateStep(c)
             /\ \/ TicketIdOf(request'[c].body) = PyNone
                \/ Persisted(tickets, TicketIdOf(request'[c].body)))
            => /\ HasFalse(http'[c].body, "success")
               /\ tickets' = tickets
               /\ session' = <<>>]_vars

\* The table holds two tickets and a request that repeats the ticket_id
\* of one of them was answered with an error
C15_Witness ==
    \E c \in AllCallers :
        /\ request[c].route = "create"
        /\ Len(tickets) = 2
        /\ Persisted(tickets, TicketIdOf(request[c].body))
        /\ http[c].status = 500
        /\ http[c].body["error"] = PyStr(<<"IntegrityError">>)

----------------------------------------------------------------------------
(* C16: for each of required_access, dependencies and suggested_labels   *)
(* of a parsed reply, the normalized result holds a list of exactly that *)
(* one string when the reply gave a single string, has no such key when  *)
(* the reply had none, and holds the same list when the reply gave an    *)
(* array.                                                                *)
C16_ArrayFieldsNormalized ==
    \A c \in AllCallers :
        (Done(c) /\ HoldsObject(response[c])) =>
            \A k \in ArrayFields :
                LET members == MembersOf(response[c])
                IN  /\ k \notin DOMAIN members => k \notin DOMAIN Result(c)
                    /\ k \in DOMAIN members =>
                        /\ k \in DOMAIN Result(c)
                        /\ members[k].kind = "string" =>
                                Result(c)[k] = PyList(<<members[k].s>>)
                        /\ members[k].kind = "array" =>
                                Result(c)[k] = PyList(members[k].items)

\* A reply gave required_access as a single string and the result is out
C16_Witness ==
    \E c \in AllCallers :
        /\ Done(c) /\ HoldsObject(response[c])
        /\ "required_access" \in DOMAIN MembersOf(response[c])
        /\ MembersOf(response[c])["required_access"].kind = "string"
        /\ Result(c)["required_access"].kind = "list"

(* C17: the normalized result holds title, estimated_time, priority,     *)
(* complexity_level and reasoning exactly as the reply was parsed: the   *)
(* same value of the same type when the reply has the field, whatever    *)
(* its type, and no such key when the reply has none.                    *)
C17_ScalarFieldsUntouched ==
    \A c \in AllCallers :
        (Done(c) /\ HoldsObject(response[c])) =>
            \A k \in ScalarFields :
                LET members == MembersOf(response[c])
                IN  /\ k \in DOMAIN Result(c) <=> k \in DOMAIN members
                    /\ k \in DOMAIN members => Result(c)[k] = FromJson(members[k])

\* A reply whose title is a number was normalized, and one without reasoning
C17_Witness ==
    \E c \in AllCallers :
        /\ Done(c) /\ HoldsObject(response[c])
        /\ "title" \in DOMAIN MembersOf(response[c])
        /\ MembersOf(response[c])["title"].kind = "number"
        /\ HasTrue(Result(c), "success")

----------------------------------------------------------------------------
(* C18: two fallback payloads made for the same task text without an     *)
(* error note (the estimator is unavailable) have the same keys and the  *)
(* same value under every key but timestamp, whatever other calls ran    *)
(* between the two.                                                      *)
C18_FallbackIsDeterministic ==
    \A c, d \in AllCallers :
        (~available /\ Done(c) /\ Done(d) /\ task[c] = task[d]) =>
            /\ DOMAIN Result(c) = DOMAIN Result(d)
            /\ \A k \in DOMAIN Result(c) \ {"timestamp"} : Result(c)[k] = Result(d)[k]

\* Two fallbacks for the same task made at different times
C18_Witness ==
    /\ ~available
    /\ Done("c1") /\ Done("c2")
    /\ task["c1"] = task["c2"]
    /\ Result("c1")["timestamp"] # Result("c2")["timestamp"]
    /\ Result("c1")["error"] = PyStr(<<"AI service temporarily unavailable">>)

----------------------------------------------------------------------------
(* Vocabulary of the properties of the cleaner *)

\* The second call was answered with the reply of the first inside a fence
FencedPair ==
    /\ Done("c1") /\ Done("c2")
    /\ response["c1"].hasText /\ response["c2"].hasText
    /\ response["c2"].text \in
            {WrapTagged(response["c1"].text), WrapUntagged(response["c1"].text)}

\* The text json.loads is given for a reply: lines 84-88
TextToParse(reply) == clean_response(Strip(reply.text))

\* The two calls ended alike: the same parsed value, or a fallback both
SameParse ==
    /\ TextToParse(response["c1"]) = TextToParse(response["c2"])
    /\ HasTrue(Result("c1"), "success") <=> HasTrue(Result("c2"), "success")
    /\ HasTrue(Result("c1"), "success") => Result("c1") = Result("c2")
    /\ IsFallback(Result("c1")) => Result("c1")["error"] = Result("c2")["error"]

\* The payload, trimmed, neither starts nor ends with a fence of its own
NoFenceOfItsOwn(payload) ==
    /\ ~StartsWith(Strip(payload), <<Fence>>)
    /\ ~EndsWith(Strip(payload), <<Fence>>)

(* C19: for every payload, the cleaner gives the same text to parse for  *)
(* the payload in a fence tagged json, for the payload in a fence        *)
(* without tag and for the payload as it is, so the fenced and the bare  *)
(* reply parse to the same value or fail both.                           *)
C19_Original == FencedPair => SameParse

(* C19, amended: the same, for every payload that, once trimmed, neither *)
(* starts nor ends with a fence of its own.                              *)
C19_Amended == (FencedPair /\ NoFenceOfItsOwn(response["c1"].text)) => SameParse

\* An object padded with white space parsed, bare and inside a tagged fence
C19_Witness ==
    /\ FencedPair
    /\ response["c1"].text = <<Space, DocTok(Doc(JObj, FullMembers)), Space>>
    /\ response["c2"].text = WrapTagged(response["c1"].text)
    /\ HasTrue(Result("c2"), "success")

----------------------------------------------------------------------------
(* Vocabulary of the properties of the assembled ticket *)

\* The estimate was answered with a ticket preview
Previewed(c) == Estimating(c) /\ Done(c) /\ http[c].status = 200

\* The title of the estimate; None when it has none
RawTitle(c) == Get(Result(c), "title", PyNone)

\* The estimate has a string title of three to six words
HasFittingTitle(c) ==
    /\ RawTitle(c).kind = "str"
    /\ Len(str_split(RawTitle(c).s)) \in 3..6

(* C20: the title of the assembled ticket is the title of the estimate,  *)
(* character for character, when that is a string of 3 to 6 words; in    *)
(* every other case (absent, no string, fewer than 3 or more than 6      *)
(* words) it is the title derived from the task text.                    *)
C20_Original ==
    \A c \in AllCallers :
        Previewed(c) =>
            http[c].body["title"] =
                IF HasFittingTitle(c) THEN RawTitle(c)
                ELSE PyStr(generate_short_title(task[c]))

(* C20, amended: the title of the assembled ticket is the title of the   *)
(* estimate without its leading and trailing white space when that is a  *)
(* string of 3 to 6 words; in every other case it is the title derived   *)
(* from the task text.                                                   *)
C20_Amended ==
    \A c \in AllCallers :
        Previewed(c) =>
            http[c].body["title"] =
                IF HasFittingTitle(c) THEN PyStr(str_strip(RawTitle(c).s))
                ELSE PyStr(generate_short_title(task[c]))

\* A title of three words between white space went into the preview trimmed
C20_Witness ==
    \E c \in AllCallers :
        /\ Previewed(c)
        /\ RawTitle(c) = PyStr(<<" ", " ">> \o Title3 \o <<"\n">>)
        /\ http[c].body["title"] = PyStr(Title3)

----------------------------------------------------------------------------
(* Vocabulary of the properties of the derived title *)

\* The preview of c carries the title derived from the task text
DerivedTitle(c) == Previewed(c) /\ ~HasFittingTitle(c)

\* The first six words of the text, joined by single blanks
FirstSixWords(text) == str_join(Take(str_split(text), 6))

\* The first character of a piece in upper case, the others as they are
upper_first(p) ==
    CASE p = "fix" -> "Fix"
      [] p = "x" -> "X"
      [] p = "iOS" -> "IOS"
      [] OTHER -> p

(* C21: the derived title is the first 6 words of the task text joined   *)
(* by single blanks, its first character in upper case and the case of   *)
(* all other characters as in the task; the task "Fix login bug on       *)
(* mobile Safari for iOS 17 users" yields "Fix login bug on mobile       *)
(* Safari".                                                              *)
C21_Original ==
    \A c \in AllCallers :
        DerivedTitle(c) =>
            /\ http[c].body["title"] =
                    PyStr([i \in 1..Len(FirstSixWords(task[c])) |->
                            IF i = 1 THEN upper_first(FirstSixWords(task[c])[i])
                            ELSE FirstSixWords(task[c])[i]])
            /\ task[c] = TaskSafari =>
                    http[c].body["title"] =
                        PyStr(<<"Fix", " ", "login", " ", "bug", " ", "on", " ", "mobile",
                                " ", "Safari">>)

(* C21, amended: the derived title is the first 6 words of the task text *)
(* joined by single blanks, its first character in upper case and all    *)
(* other characters in lower case; the task "Fix login bug on mobile     *)
(* Safari for iOS 17 users" yields "Fix login bug on mobile safari".     *)
C21_Amended ==
    \A c \in AllCallers :
        DerivedTitle(c) =>
            /\ http[c].body["title"] =
                    PyStr([i \in 1..Len(FirstSixWords(task[c])) |->
                            IF i = 1 THEN capitalize_piece(FirstSixWords(task[c])[i])
                            ELSE lower_piece(FirstSixWords(task[c])[i])])
            /\ task[c] = TaskSafari =>
                    http[c].body["title"] =
                        PyStr(<<"Fix", " ", "login", " ", "bug", " ", "on", " ", "mobile",
                                " ", "safari">>)

\* The task of the example was previewed for a reply without a title
C21_Witness ==
    \E c \in AllCallers :
        /\ DerivedTitle(c)
        /\ task[c] = TaskSafari
        /\ "title" \notin DOMAIN Result(c)

----------------------------------------------------------------------------
(* Vocabulary of the properties of the ticket id *)

\* The ticket id in the preview of c
PreviewedId(c) == http[c].body["ticket_id"]

\* The task text as the request of c carried it, before trimming
PostedTask(c) == request[c].body.d["task"].s

(* C22: the ticket_id of an estimate depends on the trimmed task text    *)
(* alone: two previews of the same trimmed text carry the same id, the   *)
(* hash of that text, whatever the replies, the ticket numbers and the   *)
(* requests served in between.                                           *)
C22_TicketIdFollowsTask ==
    \A c, d \in AllCallers :
        Previewed(c) /\ Previewed(d) /\ str_strip(PostedTask(c)) = str_strip(PostedTask(d))
            => /\ PreviewedId(c) = PreviewedId(d)
               /\ PreviewedId(c) = PyStr(md5_16(str_strip(PostedTask(c))))

\* Two previews of one task, posted with different padding, from different
\* replies and under different ticket numbers
C22_Witness ==
    /\ Previewed("c1") /\ Previewed("c2")
    /\ PostedTask("c1") # PostedTask("c2")
    /\ str_strip(PostedTask("c1")) = str_strip(PostedTask("c2"))
    /\ response["c1"] # response["c2"]
    /\ http["c1"].body["ticket_number"] # http["c2"].body["ticket_number"]

----------------------------------------------------------------------------
(* Vocabulary of the properties of the passed fields *)

PassedFields ==
    {"dependencies", "required_access", "suggested_labels", "reasoning", "priority",
     "complexity_level", "estimated_time"}

\* The column of the ticket a field of the estimate is stored in
ColumnOf(k) ==
    CASE k = "suggested_labels" -> "tags"
      [] k = "required_access" -> "access_required"
      [] OTHER -> k

\* The value of a column of a row; None when the ticket has no such column
Column(row, k) == IF k \in DOMAIN row THEN row[k] ELSE PyNone

\* The ticket of c was made from the preview of its estimate
CreatedFromPreview(c) ==
    /\ Done(c)
    /\ request[c].route = "create"
    /\ http[c].status = 200

\* The ticket the handler has just persisted for c
CreatedRow(c) == http[c].ticket[1]

(* C23: each of dependencies, required_access, suggested_labels,         *)
(* reasoning, priority, complexity_level and estimated_time has in the   *)
(* assembled payload, and in the ticket persisted from that payload, the *)
(* value the normalized estimate has for it.                             *)
C23_Original ==
    \A c \in AllCallers :
        /\ Previewed(c) =>
                \A k \in PassedFields \cap DOMAIN Result(c) :
                    http[c].estimate[k] = Result(c)[k]
        /\ CreatedFromPreview(c) =>
                \A k \in PassedFields \cap DOMAIN Result(c) :
                    Column(CreatedRow(c), ColumnOf(k)) = Result(c)[k]

(* C23, amended: each of the seven fields the normalized estimate        *)
(* carries has the same value in the assembled payload, and a field it   *)
(* lacks has the default there; the ticket persisted from the payload    *)
(* has the estimate's value for estimated_time, suggested_labels (as     *)
(* tags), required_access (as access_required) and dependencies, its     *)
(* priority is the edited priority of the request in lower case, and it  *)
(* has no column for reasoning and complexity_level.                     *)
C23_Amended ==
    \A c \in AllCallers :
        /\ Previewed(c) =>
                /\ \A k \in PassedFields \cap DOMAIN Result(c) :
                        http[c].estimate[k] = Result(c)[k]
                /\ DOMAIN http[c].estimate = PassedFields
                /\ "estimated_time" \notin DOMAIN Result(c) =>
                        http[c].estimate["estimated_time"] = PyStr(<<"Unknown">>)
        /\ CreatedFromPreview(c) =>
                /\ \A k \in {"estimated_time", "suggested_labels", "required_access",
                             "dependencies"} \cap DOMAIN Result(c) :
                        CreatedRow(c)[ColumnOf(k)] = Result(c)[k]
                /\ CreatedRow(c).priority =
                        PyStr(str_lower(request[c].body.d["edited_priority"].s))
                /\ {"reasoning", "complexity_level"} \cap DOMAIN CreatedRow(c) = {}

\* A ticket was persisted from the preview of a full estimate, the priority
\* of the estimate echoed as the edited one
C23_Witness ==
    \E c \in AllCallers :
        /\ CreatedFromPreview(c)
        /\ PassedFields \subseteq DOMAIN Result(c)
        /\ request[c].body.d["edited_priority"] = Result(c)["priority"]
        /\ Len(CreatedRow(c).tags.items) > 0
        /\ Len(tickets) > 0

----------------------------------------------------------------------------
(* Vocabulary of the properties of the board *)

\* The rows of the table
Rows == {tickets[i] : i \in 1..Len(tickets)}

IsNew(row) == row.status = PyStr(<<"new">>)

(* C24: after any sequence of create-ticket, PATCH /api/kanban-tickets,  *)
(* PATCH /api/ticket and reset requests, the status of every persisted   *)
(* ticket is one of new, in_progress, review, completed and blocked.     *)
C24_StatusIsAStage ==
    \A row \in Rows :
        row.status.kind = "str" /\ row.status.s \in valid_statuses

\* What PATCH /api/kanban-tickets/<id> makes of request r at instant now
KanbanResult(r, now) == update_ticket_status(r.id, r.body, tickets, now)

IsError(answer) == answer.status \in {400, 404, 500} /\ HasFalse(answer.body, "success")

\* The id of the request matches no ticket
UnknownId(r) == \A row \in Rows : row.id # r.id

\* The handler raises on the request: the body is no object, or int() fails
Raises(r) ==
    \/ r.body.kind # "dict"
    \/ /\ "progress_percentage" \in DOMAIN r.body.d
       /\ r.body.d["progress_percentage"].kind # "NoneType"
       /\ py_int(r.body.d["progress_percentage"]).exc # ""

(* C25: a PATCH /api/kanban-tickets/<id> request whose status is not one *)
(* of the five stages, or whose id matches no ticket, or that fails with *)
(* an exception, is answered with an error and leaves every field of     *)
(* every persisted ticket as it was.                                     *)
C25_Original ==
    \A r \in KanbanRequests, now \in utcnow(tickets) :
        \/ UnknownId(r)
        \/ Raises(r)
        \/ "status" \in DOMAIN r.body.d /\ ~is_valid_status(r.body.d["status"])
        => /\ IsError(KanbanResult(r, now).response)
           /\ KanbanResult(r, now).table = tickets

(* C25, amended: a PATCH /api/kanban-tickets/<id> request whose status   *)
(* is a non-empty value that is not one of the five stages, or whose id  *)
(* matches no ticket, or that fails with an exception, is answered with  *)
(* an error (400, 404, 500) and leaves every field of every persisted    *)
(* ticket as it was; an empty status counts as no status.                *)
C25_Amended ==
    \A r \in KanbanRequests, now \in utcnow(tickets) :
        /\ UnknownId(r) => KanbanResult(r, now).response.status = 404
        /\ ~UnknownId(r) /\ Raises(r) => KanbanResult(r, now).response.status = 500
        /\ /\ ~UnknownId(r)
           /\ r.body.kind = "dict"
           /\ Truthy(Get(r.body.d, "status", PyNone))
           /\ ~is_valid_status(r.body.d["status"])
           => KanbanResult(r, now).response.status = 400
        /\ \/ UnknownId(r)
           \/ Raises(r)
           \/ Truthy(Get(r.body.d, "status", PyNone)) /\ ~is_valid_status(r.body.d["status"])
           => /\ IsError(KanbanResult(r, now).response)
              /\ KanbanResult(r, now).table = tickets

\* Two tickets, both in progress, and the first is sent a status with a
\* progress that is no number: the handler raises after it has changed the
\* ticket
C25_Witness ==
    /\ Len(tickets) = 2
    /\ \A row \in Rows : row.status = PyStr(<<"in_progress">>)
    /\ \E r \in KanbanRequests, now \in utcnow(tickets) :
        /\ r.id = 1
        /\ r.body = BothBody("in_progress", PyStr(<<"abc">>))
        /\ KanbanResult(r, now).response.status = 500
        /\ kanban_transition(tickets[1], r.body.d["status"], now) # tickets[1]

(* C26: after any sequence of create, PATCH and reset requests the       *)
(* progress_percentage of every persisted ticket is an integer from 0 to *)
(* 100, whatever progress values the requests carried.                   *)
C26_ProgressInRange ==
    \A row \in Rows : row.progress_percentage \in 0..100

\* A ticket at 50 that is sent a progress of 250 and one of -5: the table
\* would hold 100 and 0
C26_Witness ==
    /\ Len(tickets) > 0
    /\ tickets[1].progress_percentage = 50
    /\ \E now \in utcnow(tickets) :
        /\ update_ticket_status(1, ProgressBody(PyNumber(250)), tickets, now).table[1].progress_percentage = 100
        /\ update_ticket_status(1, ProgressBody(PyNumber(-5)), tickets, now).table[1].progress_percentage = 0
    /\ \E r \in KanbanRequests : r.body = ProgressBody(PyNumber(250))

\* The request sets the status to completed and carries no progress
CompletesOnly(r) ==
    /\ r.body.kind = "dict"
    /\ Get(r.body.d, "status", PyNone) = PyStr(<<"completed">>)
    /\ "progress_percentage" \notin DOMAIN r.body.d

(* C27: after a successful PATCH /api/kanban-tickets/<id> that sets the  *)
(* status to completed and carries no progress_percentage, the ticket    *)
(* has completed_at set and progress_percentage 100, whatever happened   *)
(* to it before.                                                         *)
C27_CompletedIsWhole ==
    \A r \in KanbanRequests, now \in utcnow(tickets) :
        CompletesOnly(r) /\ KanbanResult(r, now).response.status = 200
            => /\ KanbanResult(r, now).response.ticket[1].status = PyStr(<<"completed">>)
               /\ KanbanResult(r, now).response.ticket[1].completed_at # NoTime
               /\ KanbanResult(r, now).response.ticket[1].progress_percentage = 100

(* C28: in every reachable state a ticket whose status is new has no     *)
(* started_at and no completed_at.                                       *)
C28_NewHasNoTimes ==
    \A row \in Rows : IsNew(row) => row.started_at = NoTime /\ row.completed_at = NoTime

\* A ticket that is new again: it was updated after the instant of its
\* creation, and the other ticket is on its way
C28_Witness ==
    /\ Len(tickets) = 2
    /\ IsNew(tickets[1])
    /\ tickets[1].tags = BoardTags
    /\ tickets[1].progress_percentage = 100
    /\ tickets[2].started_at # NoTime

(* C29: in every reachable state a ticket whose status is new has        *)
(* progress_percentage 0.                                                *)
C29_NewHasNoProgress ==
    \A row \in Rows : IsNew(row) => row.progress_percentage = 0

\* The request moves the ticket to in_progress
Starts(r) ==
    /\ r.body.kind = "dict"
    /\ Get(r.body.d, "status", PyNone) = PyStr(<<"in_progress">>)

\* The ticket the request names, before the request
Target(r) == tickets[query_get(tickets, r.id)]

\* The ticket the request names, as the successful request leaves it
Patched(r, now) == KanbanResult(r, now).response.ticket[1]

\* A step gives a ticket that has a started_at another one
StartedAnew ==
    \E i \in 1..Len(tickets) :
        /\ Len(tickets') = Len(tickets)
        /\ tickets[i].started_at # NoTime
        /\ tickets'[i].started_at # NoTime
        /\ tickets'[i].started_at # tickets[i].started_at

(* C30: in PATCH /api/kanban-tickets/<id> the move to in_progress sets   *)
(* started_at only when it is unset, and then raises a progress of 0 to  *)
(* 10; when started_at is set the move leaves started_at and the         *)
(* progress as they are; so the started_at of a ticket is never replaced *)
(* by another: it is the instant of the first entry into in_progress     *)
(* since the ticket was last new.                                        *)
C30_Original ==
    /\ [](\A r \in KanbanRequests, now \in utcnow(tickets) :
            Starts(r) /\ KanbanResult(r, now).response.status = 200
                => IF Target(r).started_at = NoTime
                   THEN /\ Patched(r, now).started_at = At(now)
                        /\ Patched(r, now).progress_percentage =
                                IF Target(r).progress_percentage = 0 THEN 10
                                ELSE Target(r).progress_percentage
                   ELSE /\ Patched(r, now).started_at = Target(r).started_at
                        /\ Patched(r, now).progress_percentage = Target(r).progress_percentage)
    /\ [][~StartedAnew]_vars

(* C30, amended: in PATCH /api/kanban-tickets/<id> the move to           *)
(* in_progress sets started_at only when it is unset and leaves it as it *)
(* is otherwise; a request without progress_percentage then raises a     *)
(* progress of 0 to 10 when started_at was unset and leaves the progress *)
(* as it is when started_at was set, and a request with one stores the   *)
(* clamped progress it carries; so no request to this endpoint replaces  *)
(* a started_at by another.                                              *)
C30_Amended ==
    /\ [](\A r \in KanbanRequests, now \in utcnow(tickets) :
            Starts(r) /\ KanbanResult(r, now).response.status = 200
                => /\ Patched(r, now).started_at =
                            IF Target(r).started_at = NoTime THEN At(now)
                            ELSE Target(r).started_at
                   /\ Patched(r, now).progress_percentage =
                            IF "progress_percentage" \in DOMAIN r.body.d
                            THEN clamp(py_int(r.body.d["progress_percentage"]).n)
                            ELSE IF Target(r).started_at = NoTime /\ Target(r).progress_percentage = 0
                            THEN 10
                            ELSE Target(r).progress_percentage)
    /\ [][StartedAnew => ~KanbanPatch("c1")]_vars

\* A ticket that was started at the first instant, has gone on to review
\* at 50 and is sent in_progress at a later instant
C30_Witness ==
    /\ Len(tickets) > 0
    /\ tickets[1].status = PyStr(<<"review">>)
    /\ tickets[1].started_at = At(0)
    /\ tickets[1].progress_percentage = 50
    /\ 1 \in utcnow(tickets)
    /\ update_ticket_status(1, StatusBody("in_progress"), tickets, 1).response.status = 200

----------------------------------------------------------------------------
(* Vocabulary of the properties of PATCH /api/ticket/<identifier> *)

\* What PATCH /api/ticket/<identifier> makes of a request at instant now
PreviewResult(identifier, body, now) == update_ticket(identifier, body, tickets, now)

\* The columns of a ticket
Columns == DOMAIN Row(PyNone, PyNone, PyNone, PyNone, PyNone, PyNone, PyNone, PyNone, PyNone, PyNone)

\* The request changes the status of ticket i to st
MovesTo(i, body, st) ==
    /\ body.kind = "dict"
    /\ "status" \in DOMAIN body.d
    /\ body.d["status"] = PyStr(<<st>>)
    /\ tickets[i].status # PyStr(<<st>>)

AsksNothing(i, body) ==
    /\ body.kind = "dict"
    /\ "status" \in DOMAIN body.d => body.d["status"] = tickets[i].status
    /\ "tags" \in DOMAIN body.d => body.d["tags"] = PyNone

(* C32: a PATCH /api/ticket/<identifier> request whose status is absent  *)
(* or the current status of the ticket and that carries no tags changes  *)
(* nothing: no field of any ticket is modified, updated_at included,     *)
(* nothing is committed, and the response says 'No changes made'.        *)
C32_NothingAskedNothingDone ==
    \A identifier \in PreviewIdentifiers, body \in PreviewPatchBodies, now \in utcnow(tickets) :
        find_ticket(tickets, identifier) # 0 /\ AsksNothing(find_ticket(tickets, identifier), body)
            => /\ PreviewResult(identifier, body, now).table = tickets
               /\ ~PreviewResult(identifier, body, now).committed
               /\ PreviewResult(identifier, body, now).response.status = 200
               /\ PreviewResult(identifier, body, now).response.body["message"] =
                        PyStr(<<"No changes made">>)

\* A completed ticket, last updated at the first instant, is sent its own
\* status at a later instant, by its id and by its ticket number
C32_Witness ==
    /\ Len(tickets) = 2
    /\ tickets[1].status = PyStr(<<"completed">>)
    /\ tickets[1].updated_at = At(0)
    /\ 1 \in utcnow(tickets)
    /\ AsksNothing(1, StatusBody("completed"))
    /\ StatusBody("completed") \in PreviewPatchBodies
    /\ find_ticket(tickets, BoardNumberA) = 1
    /\ PreviewResult(BoardNumberA, StatusBody("completed"), 1).response.status = 200

----------------------------------------------------------------------------
(* Vocabulary of the properties of the reset *)

\* What POST /api/kanban-tickets/reset makes of the table at instant now
ResetResult(now, db_error) == reset_all_tickets(tickets, now, db_error)

(* C33: after a successful reset every persisted ticket has status new,  *)
(* progress_percentage 0 and neither started_at nor completed_at, and    *)
(* the tickets are the same ones, with the ticket_id, ticket_number and  *)
(* title they had; a reset that fails is rolled back and changes no      *)
(* ticket.                                                               *)
C33_ResetRenewsAll ==
    \A now \in utcnow(tickets), db_error \in DbErrors :
        IF db_error = ""
        THEN /\ ResetResult(now, db_error).response.status = 200
             /\ Len(ResetResult(now, db_error).table) = Len(tickets)
             /\ \A i \in 1..Len(tickets) :
                    LET after == ResetResult(now, db_error).table[i]
                    IN  /\ IsNew(after)
                        /\ after.progress_percentage = 0
                        /\ after.started_at = NoTime
                        /\ after.completed_at = NoTime
                        /\ after.id = tickets[i].id
                        /\ after.ticket_id = tickets[i].ticket_id
                        /\ after.ticket_number = tickets[i].ticket_number
                        /\ after.title = tickets[i].title
        ELSE /\ IsError(ResetResult(now, db_error).response)
             /\ ResetResult(now, db_error).table = tickets

\* Two tickets on their way, the first completed once and now at 50 with a
\* status the board does not know, the second in progress
C33_Witness ==
    /\ Len(tickets) = 2
    /\ tickets[1].status = PyStr(<<"archived">>)
    /\ tickets[1].progress_percentage = 50
    /\ tickets[1].completed_at # NoTime
    /\ tickets[2].status = PyStr(<<"in_progress">>)
    /\ tickets[2].progress_percentage = 10
    /\ \E now \in utcnow(tickets) : ResetResult(now, "").table # tickets

\* ---------------------------------------------------------------------------
\* C34
\* ---------------------------------------------------------------------------

\* The call of c met a provider attempt that returned: every attempt is counted
\* in calls, every failed one leaves its text in errors
AttemptSucceeded(c) == calls[c] = Len(errors[c]) + 1

\* The reply has a text, and what json.loads makes of the cleaned text is an object
ParsedObject(reply) ==
    /\ reply.hasText
    /\ json_loads(TextToParse(reply)).exc = ""
    /\ json_loads(TextToParse(reply)).val.kind = "dict"

\* The parsing step was reached: the call ended with a parsed reply or with the
\* answer of `except json.JSONDecodeError`
ParsingReached(c) ==
    \/ HasTrue(Result(c), "success")
    \/ /\ "error" \in DOMAIN Result(c)
       /\ Len(Result(c)["error"].s) > 0
       /\ Result(c)["error"].s[1] = "JSON Parse Error: "

\* C34: a finished call of estimate_task has made at most 3 provider attempts
\* and has returned; its result has success true exactly when one attempt
\* succeeded and the cleaned text of its reply parsed as a JSON object; every
\* other result has success false and the fallback marker; and the parsing step
\* is reached only after an attempt that succeeded.
C34_SuccessIffParsedObject ==
    \A c \in AllCallers :
        Done(c) =>
            /\ calls[c] <= 3
            /\ outcome[c].how = "return"
            /\ HasTrue(Result(c), "success") <=>
                    (AttemptSucceeded(c) /\ ParsedObject(response[c]))
            /\ ~HasTrue(Result(c), "success") =>
                    (HasFalse(Result(c), "success") /\ HasTrue(Result(c), "fallback"))
            /\ ParsingReached(c) => AttemptSucceeded(c)

\* The third attempt succeeded after two transient failures and its fenced
\* reply held an object: the result is a success
C34_Witness ==
    \E c \in AllCallers :
        /\ Done(c)
        /\ calls[c] = 3
        /\ Len(errors[c]) = 2
        /\ ParsedObject(response[c])
        /\ response[c].text[1] = Fence
        /\ HasTrue(Result(c), "success")

====
